---- MODULE Spec2Model ----
(***************************************************************************)
(* The content backend: Track <-> Playlist relationship maintenance, Page  *)
(* slugs, contacts, the list endpoints and the middleware chain.           *)
(* The state is the document collections (Track, Playlist, Page, Contact), *)
(* the collections as the list endpoints read them (catalog), the last     *)
(* completed request (last), the last list response (resp) and the         *)
(* requests in flight (proc). There is one action per route handler, and,  *)
(* where requests interleave, one action per store call of a handler.      *)
(* ObjectIds are small naturals; the hex string a client sends for an id   *)
(* is the pair (the id it denotes, whether it is written with upper-case   *)
(* hex digits), so that casting and toString() are real conversions.       *)
(***************************************************************************)
EXTENDS Integers, Sequences, FiniteSets, TLC

\* ------------------------------------------------------------------ bounds
MaxTracks == 2        \* Track documents ever created
MaxPlaylists == 2     \* Playlist documents ever created
MaxLen == 2           \* longest stored Playlist.tracks array
MaxCount == 2         \* |trackCount| stays within this
MaxIds == 2           \* longest id list in a request body
MaxPages == 2         \* Page documents ever created
MaxContacts == 2      \* Contact documents ever created
MaxDocs == 3          \* documents in a listed collection
MaxProcs == 2         \* requests in flight at once
MaxStored == 2        \* documents of all collections, where every route is explored at once

VARIABLES Track, Playlist, last, Page, Contact, catalog, resp, proc
vars == <<Track, Playlist, last, Page, Contact, catalog, resp, proc>>
\* what the Track and Playlist handlers never touch
otherVars == <<Page, Contact, catalog, resp, proc>>
\* what the Page and Contact handlers never touch
musicVars == <<Track, Playlist>>

\* ------------------------------------------------------------------- ids
Ghost == 0            \* a well-formed ObjectId that never named a document
TrackIds == 1..MaxTracks
PlaylistIds == 1..MaxPlaylists
NoId == -1            \* the field is absent from the request body

Range(s) == {s[i] : i \in 1..Len(s)}
Occurrences(s, x) == Cardinality({i \in 1..Len(s) : s[i] = x})
SeqsUpTo(S, n) == UNION {[1..k -> S] : k \in 0..n}

\* A 24-digit hex string: the ObjectId it denotes and whether it is written
\* with upper-case digits. isMongoId and the /^[0-9a-fA-F]{24}$/ test accept both.
HexStrings(ids) == [oid : ids, uc : BOOLEAN]
\* ObjectId.toString(): the lower-case hex form
toString(o) == [oid |-> o, uc |-> FALSE]
\* a string that is not 24 hex digits denotes no ObjectId
Malformed == [oid |-> NoId, uc |-> FALSE]
isHex24(s) == s.oid # NoId
\* the schema's cast of a string to an ObjectId
castObjectId(s) == s.oid
castAll(ss) == [i \in 1..Len(ss) |-> castObjectId(ss[i])]

\* ------------------------------------------------------------- documents
NoTrack == [st |-> "none", playlists |-> <<>>]
GoneTrack == [st |-> "gone", playlists |-> <<>>]
NoPlaylist == [st |-> "none", tracks |-> <<>>, trackCount |-> 0]
GonePlaylist == [st |-> "gone", tracks |-> <<>>, trackCount |-> 0]

trackSchema(pls) == [st |-> "live", playlists |-> pls]
playlistSchema(trs, n) == [st |-> "live", tracks |-> trs, trackCount |-> n]

LiveTracks == {t \in TrackIds : Track[t].st = "live"}
LivePlaylists == {p \in PlaylistIds : Playlist[p].st = "live"}
\* ids a client can put in a request: documents that were created (a deleted
\* Track's id is the id of no document), or for a playlist a ghost id
KnownTracks == {t \in TrackIds : Track[t].st # "none"}
KnownPlaylists == {p \in PlaylistIds : Playlist[p].st # "none"} \cup {Ghost}
NewTrackId == CHOOSE t \in TrackIds : Track[t].st = "none" /\ \A u \in TrackIds : u < t => Track[u].st # "none"
NewPlaylistId == CHOOSE p \in PlaylistIds : Playlist[p].st = "none" /\ \A q \in PlaylistIds : q < p => Playlist[q].st # "none"

NoFail == [primary |-> FALSE, remove |-> {}, add |-> FALSE, save2 |-> FALSE]
\* the last completed request: the route, the document it names, the playlist
\* (or track) id it carries, and the HTTP status of its response
Idle == [op |-> "init", id |-> NoId, arg |-> NoId, status |-> 0]
Done(op, id, arg, status) == [op |-> op, id |-> id, arg |-> arg, status |-> status]
\* a 4xx/5xx response is recorded by route and status alone
Respond(op, id, arg, status) ==
    IF status \in {200, 201} THEN Done(op, id, arg, status) ELSE Done(op, NoId, NoId, status)

\* the model's window: arrays and counters stay within the bounds
InBounds(pls) == \A p \in PlaylistIds : /\ Len(pls[p].tracks) <= MaxLen
                                        /\ pls[p].trackCount \in (0 - MaxCount)..MaxCount

\* ---------------------------------------- pages, contacts, listings, requests
PageIds == 1..MaxPages
ContactIds == 1..MaxContacts
Procs == 1..MaxProcs
\* a Page document by its title and slug (texts are sequences of characters)
NoPage == [st |-> "none", title |-> <<>>, slug |-> <<>>]
GonePage == [st |-> "gone", title |-> <<>>, slug |-> <<>>]
pageSchema(title, slug) == [st |-> "live", title |-> title, slug |-> slug]
LivePages == {g \in PageIds : Page[g].st = "live"}
KnownPages == {g \in PageIds : Page[g].st # "none"} \cup {Ghost}
NewPageId == CHOOSE g \in PageIds : Page[g].st = "none" /\ \A h \in PageIds : h < g => Page[h].st # "none"
LiveContacts == {c \in ContactIds : Contact[c] = "live"}
KnownContacts == {c \in ContactIds : Contact[c] # "none"} \cup {Ghost}
NewContactId == CHOOSE c \in ContactIds : Contact[c] = "none" /\ \A d \in ContactIds : d < c => Contact[d] # "none"
\* the collections as the list endpoints see them, newest document first
EmptyCatalog == [tracks |-> <<>>, playlists |-> <<>>, pages |-> <<>>]
\* the last list response
NoResp == [op |-> "init", query |-> <<>>, status |-> 0, data |-> <<>>, pagination |-> <<>>]
\* a request in flight: the route, where its handler stands, the document it
\* names, the playlist id of its body, the playlists still to be left, the
\* Page body it carries, the status it answered, the store writes it issued
\* and, in a playlist request, the id strings of the request and the Playlist
\* document as findById loaded it
IdleProc == [op |-> "none", pc |-> "idle", id |-> NoId, arg |-> NoId, old |-> <<>>,
             body |-> [title |-> <<>>, slug |-> <<>>], status |-> 0, writes |-> <<>>,
             ids |-> <<>>, doc |-> NoPlaylist]

Init == /\ Track = [t \in TrackIds |-> NoTrack]
        /\ Playlist = [p \in PlaylistIds |-> NoPlaylist]
        /\ last = Idle
        /\ Page = [g \in PageIds |-> NoPage]
        /\ Contact = [c \in ContactIds |-> "none"]
        /\ catalog = EmptyCatalog
        /\ resp = NoResp
        /\ proc = [i \in Procs |-> IdleProc]

\* --------------------------------------------------- DocumentStore updates
\* a variant of the add step without its counter increment
addToSetOnly(pl, t) == [pl EXCEPT !.tracks = IF t \in Range(@) THEN @ ELSE Append(@, t)]
\* { $addToSet: { tracks: t }, $inc: { trackCount: 1 } }
addToSetInc(pl, t) == [pl EXCEPT !.tracks = IF t \in Range(@) THEN @ ELSE Append(@, t),
                                 !.trackCount = @ + 1]
\* a variant of the remove step without its counter decrement
pullOnly(pl, t) == [pl EXCEPT !.tracks = SelectSeq(@, LAMBDA x : x # t)]
\* { $pull: { tracks: t }, $inc: { trackCount: -1 } }
pullInc(pl, t) == [pl EXCEPT !.tracks = SelectSeq(@, LAMBDA x : x # t),
                             !.trackCount = @ - 1]
\* a variant of the add step that writes the array it computed from nothing
addTrackOverwriting(pls, p, t) ==
    IF p \in PlaylistIds /\ pls[p].st = "live"
    THEN [pls EXCEPT ![p].tracks = <<t>>, ![p].trackCount = @ + 1] ELSE pls
\* Playlist.findByIdAndUpdate(p, update): a missing document is left missing
\* (the call resolves to null, it does not throw)
addTrackToPlaylist(pls, p, t) ==
    IF p \in PlaylistIds /\ pls[p].st = "live" THEN [pls EXCEPT ![p] = addToSetInc(@, t)] ELSE pls
removeTrackFromPlaylist(pls, p, t) ==
    IF p \in PlaylistIds /\ pls[p].st = "live" THEN [pls EXCEPT ![p] = pullInc(@, t)] ELSE pls

\* playlistSchema.pre('save'): trackCount follows the tracks array
preSave(pl) == [pl EXCEPT !.trackCount = Len(pl.tracks)]

\* ------------------------------------------------------ POST /api/tracks
\* a variant that records the playlist only when the update found it
trackAfterCreateChecked(pid, fail) ==
    IF pid \in LivePlaylists /\ ~fail.add /\ ~fail.save2 THEN trackSchema(<<pid>>) ELSE trackSchema(<<>>)
\* fail.primary: the first track.save() throws; fail.add: the playlist update
\* throws, which skips the rest of the try block; fail.save2: the second
\* track.save() throws.
trackAfterCreate(pid, fail) ==
    IF pid # NoId /\ ~fail.add /\ ~fail.save2 THEN trackSchema(<<pid>>) ELSE trackSchema(<<>>)
playlistsAfterCreate(t, pid, fail) ==
    IF pid # NoId /\ ~fail.add THEN addTrackToPlaylist(Playlist, pid, t) ELSE Playlist
\* a variant whose sync errors reach the outer catch
createTrackStatusStrict(fail) == IF fail.primary \/ fail.add \/ fail.save2 THEN 500 ELSE 201
createTrackStatus(fail) == IF fail.primary THEN 500 ELSE 201

CreateTrack(pid, fail) ==
    /\ \E t \in TrackIds : Track[t].st = "none"
    /\ LET t == NewTrackId IN
       IF fail.primary
       THEN /\ UNCHANGED <<Track, Playlist>>
            /\ last' = Respond("createTrack", t, pid, createTrackStatus(fail))
       ELSE /\ Track' = [Track EXCEPT ![t] = trackAfterCreate(pid, fail)]
            /\ Playlist' = playlistsAfterCreate(t, pid, fail)
            /\ InBounds(Playlist')
            /\ last' = Respond("createTrack", t, pid, createTrackStatus(fail))
    /\ UNCHANGED otherVars

\* --------------------------------------------------- PUT /api/tracks/:id
\* a variant of the remove loop that a failing $pull ends
RECURSIVE removeFromOldUntilFailure(_, _, _, _)
removeFromOldUntilFailure(pls, old, t, failing) ==
    IF old = <<>> \/ Head(old) \in failing THEN pls
    ELSE removeFromOldUntilFailure(removeTrackFromPlaylist(pls, Head(old), t), Tail(old), t, failing)
\* oldPlaylists = currentTrack.playlists; each $pull is tried on its own
RECURSIVE removeFromOld(_, _, _, _)
removeFromOld(pls, old, t, failing) ==
    IF old = <<>> THEN pls
    ELSE removeFromOld(IF Head(old) \in failing THEN pls ELSE removeTrackFromPlaylist(pls, Head(old), t),
                       Tail(old), t, failing)
playlistsAfterUpdate(t, pid, fail) ==
    IF pid = NoId THEN Playlist
    ELSE LET removed == removeFromOld(Playlist, Track[t].playlists, t, fail.remove)
         IN IF fail.add THEN removed ELSE addTrackToPlaylist(removed, pid, t)
\* Track.findByIdAndUpdate(id, updateData): playlistId is no path of trackSchema,
\* so the stored playlists field is not part of the update; the handler's later
\* assignment to track.playlists changes the response object only.
trackAfterUpdate(t, pid, fail) == Track[t]
\* fail.primary: Track.findById or Track.findByIdAndUpdate throws
updateTrackStatus(t, fail) ==
    IF fail.primary THEN 500
    ELSE IF t \notin TrackIds \/ Track[t].st # "live" THEN 404 ELSE 200

UpdateTrack(t, pid, fail) ==
    /\ last' = Respond("updateTrack", t, pid, updateTrackStatus(t, fail))
    /\ IF updateTrackStatus(t, fail) = 200
       THEN /\ Track' = [Track EXCEPT ![t] = trackAfterUpdate(t, pid, fail)]
            /\ Playlist' = playlistsAfterUpdate(t, pid, fail)
            /\ InBounds(Playlist')
       ELSE UNCHANGED <<Track, Playlist>>
    /\ UNCHANGED otherVars

\* ------------------------------------------------ DELETE /api/tracks/:id
deleteTrackStatus(t, fail) ==
    IF fail THEN 500 ELSE IF t \in TrackIds /\ Track[t].st = "live" THEN 200 ELSE 404
tracksAfterDelete(t) == [Track EXCEPT ![t] = GoneTrack]
\* a variant that cascades the delete into the playlists
playlistsAfterCascade(t) ==
    [p \in PlaylistIds |-> IF Playlist[p].st = "live" /\ t \in Range(Playlist[p].tracks)
                           THEN pullInc(Playlist[p], t) ELSE Playlist[p]]
playlistsAfterTrackDelete(t) == Playlist

DeleteTrack(t, fail) ==
    /\ last' = Respond("deleteTrack", t, NoId, deleteTrackStatus(t, fail))
    /\ IF deleteTrackStatus(t, fail) = 200
       THEN /\ Track' = tracksAfterDelete(t)
            /\ Playlist' = playlistsAfterTrackDelete(t)
       ELSE UNCHANGED <<Track, Playlist>>
    /\ UNCHANGED otherVars

\* ----------------------------------------------------- POST /api/playlists
\* body: [hasTracks, tracks, hasCount, trackCount]; the ids of body.tracks are
\* given as already cast. A negative trackCount fails the schema's min: 0.
validCount(body) == ~body.hasCount \/ body.trackCount >= 0
createPlaylistStatus(body, fail) == IF fail \/ ~validCount(body) THEN 500 ELSE 201
\* new Playlist(body) then save(): the pre-save hook overrides body.trackCount
playlistAfterCreate(body) ==
    preSave(playlistSchema(IF body.hasTracks THEN body.tracks ELSE <<>>,
                           IF body.hasCount THEN body.trackCount ELSE 0))

CreatePlaylist(body, fail) ==
    /\ \E p \in PlaylistIds : Playlist[p].st = "none"
    /\ LET p == NewPlaylistId IN
       /\ last' = Respond("createPlaylist", p, NoId, createPlaylistStatus(body, fail))
       /\ IF createPlaylistStatus(body, fail) = 201
          THEN /\ Playlist' = [Playlist EXCEPT ![p] = playlistAfterCreate(body)]
               /\ InBounds(Playlist')
          ELSE UNCHANGED Playlist
       /\ UNCHANGED Track
    /\ UNCHANGED otherVars

\* -------------------------------------------------- PUT /api/playlists/:id
\* Playlist.findByIdAndUpdate(id, body, {runValidators}): a $set of the supplied
\* paths; no save(), so the pre-save hook does not run.
playlistAfterPut(pl, body) ==
    [pl EXCEPT !.tracks = IF body.hasTracks THEN body.tracks ELSE @,
               !.trackCount = IF body.hasCount THEN body.trackCount ELSE @]
updatePlaylistStatus(p, body, fail) ==
    IF fail \/ ~validCount(body) THEN 500
    ELSE IF p \in PlaylistIds /\ Playlist[p].st = "live" THEN 200 ELSE 404

UpdatePlaylist(p, body, fail) ==
    /\ last' = Respond("updatePlaylist", p, NoId, updatePlaylistStatus(p, body, fail))
    /\ IF updatePlaylistStatus(p, body, fail) = 200
       THEN /\ Playlist' = [Playlist EXCEPT ![p] = playlistAfterPut(@, body)]
            /\ InBounds(Playlist')
       ELSE UNCHANGED Playlist
    /\ UNCHANGED Track
    /\ UNCHANGED otherVars

\* ----------------------------------------------- DELETE /api/playlists/:id
deletePlaylistStatus(p, fail) ==
    IF fail THEN 500 ELSE IF p \in PlaylistIds /\ Playlist[p].st = "live" THEN 200 ELSE 404
playlistsAfterDelete(p) == [Playlist EXCEPT ![p] = GonePlaylist]
tracksAfterPlaylistDelete(p) == Track

DeletePlaylist(p, fail) ==
    /\ last' = Respond("deletePlaylist", p, NoId, deletePlaylistStatus(p, fail))
    /\ IF deletePlaylistStatus(p, fail) = 200
       THEN /\ Playlist' = playlistsAfterDelete(p)
            /\ Track' = tracksAfterPlaylistDelete(p)
       ELSE UNCHANGED <<Track, Playlist>>
    /\ UNCHANGED otherVars

\* ------------------------------------------- PUT /api/playlists/:id/tracks
\* MongooseArray.includes(str): str == element, the element compared through
\* its toString(), i.e. against the lower-case hex form
includes(arr, str) == \E i \in 1..Len(arr) : toString(arr[i]) = str
\* for (const trackId of trackIds) if (!tracks.includes(trackId)) tracks.push(trackId)
RECURSIVE pushMissing(_, _)
pushMissing(arr, trackIds) ==
    IF trackIds = <<>> THEN arr
    ELSE pushMissing(IF includes(arr, Head(trackIds)) THEN arr
                     ELSE Append(arr, castObjectId(Head(trackIds))),
                     Tail(trackIds))
playlistAfterAddTracks(pl, trackIds) == preSave([pl EXCEPT !.tracks = pushMissing(@, trackIds)])
\* playlist.save() validates the loaded document before the pre-save hook runs:
\* a stored trackCount below the schema's min: 0 makes the save throw
saveValidates(pl) == pl.trackCount >= 0
\* a variant without the check of the id strings
addTracksStatusUnchecked(p, trackIds, fail) ==
    IF fail THEN 500
    ELSE IF ~(p \in PlaylistIds /\ Playlist[p].st = "live") THEN 404
    ELSE IF saveValidates(Playlist[p]) THEN 200 ELSE 500
\* every id string is tested against /^[0-9a-fA-F]{24}$/ before the playlist
\* is looked up: one failing string answers 400
addTracksStatus(p, trackIds, fail) ==
    IF \E i \in 1..Len(trackIds) : ~isHex24(trackIds[i]) THEN 400
    ELSE IF fail THEN 500
    ELSE IF ~(p \in PlaylistIds /\ Playlist[p].st = "live") THEN 404
    ELSE IF saveValidates(Playlist[p]) THEN 200 ELSE 500

AddTracks(p, trackIds, fail) ==
    /\ last' = Respond("addTracks", p, NoId, addTracksStatus(p, trackIds, fail))
    /\ IF addTracksStatus(p, trackIds, fail) = 200
       THEN /\ Playlist' = [Playlist EXCEPT ![p] = playlistAfterAddTracks(@, trackIds)]
            /\ InBounds(Playlist')
       ELSE UNCHANGED Playlist
    /\ UNCHANGED Track
    /\ UNCHANGED otherVars

\* ------------------------------- DELETE /api/playlists/:id/tracks/:trackId
\* playlist.tracks.filter(track => track.toString() !== trackId)
filterOut(arr, trackId) == SelectSeq(arr, LAMBDA x : toString(x) # trackId)
playlistAfterRemoveTrack(pl, trackId) == preSave([pl EXCEPT !.tracks = filterOut(@, trackId)])
removeTrackStatus(p, fail) ==
    IF fail THEN 500
    ELSE IF ~(p \in PlaylistIds /\ Playlist[p].st = "live") THEN 404
    ELSE IF saveValidates(Playlist[p]) THEN 200 ELSE 500

RemoveTrack(p, trackId, fail) ==
    /\ last' = Respond("removeTrack", p, castObjectId(trackId), removeTrackStatus(p, fail))
    /\ IF removeTrackStatus(p, fail) = 200
       THEN Playlist' = [Playlist EXCEPT ![p] = playlistAfterRemoveTrack(@, trackId)]
       ELSE UNCHANGED Playlist
    /\ UNCHANGED Track
    /\ UNCHANGED otherVars

\* ------------------------------------------------------------ the requests
\* which store calls of a Track request throw
CreateFails == {NoFail, [NoFail EXCEPT !.primary = TRUE], [NoFail EXCEPT !.add = TRUE],
                [NoFail EXCEPT !.save2 = TRUE]}
UpdateFails(t) == {[NoFail EXCEPT !.primary = TRUE]} \cup
                  {[NoFail EXCEPT !.remove = r, !.add = a] :
                      r \in SUBSET (IF t \in TrackIds THEN Range(Track[t].playlists) ELSE {}), a \in BOOLEAN}
Bodies == [hasTracks : BOOLEAN, tracks : SeqsUpTo(KnownTracks, MaxIds),
           hasCount : BOOLEAN, trackCount : -1..MaxCount]
\* absent fields carry no value
WellFormedBody(b) == (~b.hasTracks => b.tracks = <<>>) /\ (~b.hasCount => b.trackCount = 0)
EmptyBody == [hasTracks |-> FALSE, tracks |-> <<>>, hasCount |-> FALSE, trackCount |-> 0]

TrackRequests ==
    \/ \E pid \in KnownPlaylists \cup {NoId}, fail \in CreateFails :
          /\ (pid = NoId => ~fail.add /\ ~fail.save2)
          /\ CreateTrack(pid, fail)
    \/ \E t \in KnownTracks, pid \in KnownPlaylists \cup {NoId} : \E fail \in UpdateFails(t) :
          /\ (pid = NoId => fail.remove = {} /\ ~fail.add)
          /\ UpdateTrack(t, pid, fail)
    \/ \E t \in KnownTracks, fail \in BOOLEAN : DeleteTrack(t, fail)

PlaylistRequests ==
    \/ \E p \in KnownPlaylists, body \in Bodies, fail \in BOOLEAN :
          WellFormedBody(body) /\ UpdatePlaylist(p, body, fail)
    \/ \E p \in KnownPlaylists, trackIds \in SeqsUpTo(HexStrings(KnownTracks), MaxIds), fail \in BOOLEAN :
          AddTracks(p, trackIds, fail)
    \/ \E p \in KnownPlaylists, trackId \in HexStrings(KnownTracks), fail \in BOOLEAN :
          RemoveTrack(p, trackId, fail)

Next ==
    \/ TrackRequests
    \/ PlaylistRequests
    \/ \E body \in Bodies, fail \in BOOLEAN : WellFormedBody(body) /\ CreatePlaylist(body, fail)
    \/ \E p \in KnownPlaylists, fail \in BOOLEAN : DeletePlaylist(p, fail)

Spec == Init /\ [][Next]_vars

\* the Track routes, over playlists that no request edits directly
NextSync ==
    \/ TrackRequests
    \/ \E fail \in BOOLEAN : CreatePlaylist(EmptyBody, fail)
    \/ \E p \in KnownPlaylists, fail \in BOOLEAN : DeletePlaylist(p, fail)

SpecSync == Init /\ [][NextSync]_vars

\* the Playlist routes, over tracks created without a playlist
NextPlaylist ==
    \/ PlaylistRequests
    \/ CreateTrack(NoId, NoFail)
    \/ \E body \in Bodies, fail \in BOOLEAN : WellFormedBody(body) /\ CreatePlaylist(body, fail)
    \/ \E p \in KnownPlaylists, fail \in BOOLEAN : DeletePlaylist(p, fail)

SpecPlaylist == Init /\ [][NextPlaylist]_vars

\* the Track routes without failures, each naming a live playlist, over
\* playlists created empty
NextQuiet ==
    \/ CreatePlaylist(EmptyBody, FALSE)
    \/ \E pid \in LivePlaylists : CreateTrack(pid, NoFail)
    \/ \E t \in LiveTracks, pid \in LivePlaylists : UpdateTrack(t, pid, NoFail)

SpecQuiet == Init /\ [][NextQuiet]_vars

\* ============================================================ list endpoints
\* Texts are sequences of characters; "." is the character a regular
\* expression reads as "any character". <<>> is an absent field or parameter.
Chars == {"a", "A", "b", "."}
NoText == <<>>
toLowerCase(c) == IF c = "A" THEN "a" ELSE c
\* { $regex: pattern, $options: 'i' } on a field: the pattern is found somewhere
\* in the text, letters compared without case, "." standing for any character;
\* an absent field matches no pattern
matchesAt(pattern, text, i) ==
    \A j \in 1..Len(pattern) :
        pattern[j] = "." \/ toLowerCase(pattern[j]) = toLowerCase(text[i + j - 1])
regexOptionsI(pattern, text) ==
    \E i \in 1..(Len(text) - Len(pattern) + 1) : matchesAt(pattern, text, i)
\* a variant of the author filter that compares for equality
authorEquals(pattern, text) == pattern = text
\* query.author = { $regex: author, $options: 'i' }
authorFilter(pattern, text) == regexOptionsI(pattern, text)
\* query.category = category, query.createdBy = createdBy
equalsFilter(value, text) == value = text

\* a numeric query parameter is a string of decimal digits, most significant first
MaxDigit == 2
MaxDigits == 1
DigitStrings == UNION {[1..k -> 0..MaxDigit] : k \in 1..MaxDigits}
NoParam == <<>>
RECURSIVE parseInt(_)
parseInt(ds) == IF ds = <<>> THEN 0 ELSE 10 * parseInt(SubSeq(ds, 1, Len(ds) - 1)) + ds[Len(ds)]
\* const { page = 1, limit = 10 } = req.query
pageOf(q) == IF q.page = NoParam THEN 1 ELSE parseInt(q.page)
limitOf(q) == IF q.limit = NoParam THEN 10 ELSE parseInt(q.limit)
\* a variant of skip that counts pages from zero
skipFromZero(q) == pageOf(q) * limitOf(q)
\* const skip = (page - 1) * limit
skipOf(q) == (pageOf(q) - 1) * limitOf(q)
\* .sort({ createdAt: -1 }): the collection is held oldest first
sortNewestFirst(docs) == [i \in 1..Len(docs) |-> docs[Len(docs) + 1 - i]]
Min(a, b) == IF a < b THEN a ELSE b
\* .skip(skip).limit(n): a limit of 0 is no limit
skipLimit(docs, skip, n) ==
    SubSeq(docs, skip + 1, IF n = 0 THEN Len(docs) ELSE Min(Len(docs), skip + n))
\* Math.ceil(total / limit); a division by zero gives Infinity or NaN, which
\* JSON writes as null
JsonNull == "null"
totalPagesOf(total, limit) == IF limit = 0 THEN JsonNull ELSE (total + limit - 1) \div limit
paginationOf(q, total) ==
    [currentPage |-> pageOf(q), totalPages |-> totalPagesOf(total, limitOf(q)),
     totalItems |-> total, itemsPerPage |-> limitOf(q)]
\* the store rejects a negative skip, which the handler answers with 500
listStatus(q) == IF skipOf(q) < 0 THEN 500 ELSE 200
listResponse(op, q, matching) ==
    IF listStatus(q) = 200
    THEN [op |-> op, query |-> q, status |-> 200,
          data |-> skipLimit(sortNewestFirst(matching), skipOf(q), limitOf(q)),
          pagination |-> paginationOf(q, Len(matching))]
    ELSE [op |-> op, query |-> q, status |-> 500, data |-> <<>>, pagination |-> <<>>]

\* ---------------------------------------------------------- GET /api/tracks
\* a variant of the filter in which search narrows nothing
trackMatchesNoSearch(q, d) ==
    /\ (q.category # NoText => equalsFilter(q.category, d.category))
    /\ (q.author # NoText => authorFilter(q.author, d.author))
\* the query object: a key per supplied (non-empty) parameter, search as $or
trackMatches(q, d) ==
    /\ (q.category # NoText => equalsFilter(q.category, d.category))
    /\ (q.author # NoText => authorFilter(q.author, d.author))
    /\ (q.search # NoText =>
           \/ regexOptionsI(q.search, d.title)
           \/ regexOptionsI(q.search, d.description)
           \/ regexOptionsI(q.search, d.author)
           \/ regexOptionsI(q.search, d.category))
ListTracks(q) ==
    /\ resp' = listResponse("listTracks", q, SelectSeq(catalog.tracks, LAMBDA d : trackMatches(q, d)))
    /\ UNCHANGED <<Track, Playlist, last, Page, Contact, catalog, proc>>

\* ------------------------------------------------------- GET /api/playlists
\* query.isPublic = isPublic === 'true', whenever the parameter is present
playlistMatches(q, d) ==
    /\ (q.createdBy # NoText => equalsFilter(q.createdBy, d.createdBy))
    /\ (q.isPublic # "absent" => d.isPublic = (q.isPublic = "true"))
    /\ (q.tag # NoText => q.tag \in d.tags)
    /\ (q.search # NoText =>
           \/ regexOptionsI(q.search, d.title)
           \/ regexOptionsI(q.search, d.description)
           \/ regexOptionsI(q.search, d.createdBy))
ListPlaylists(q) ==
    /\ resp' = listResponse("listPlaylists", q,
                            SelectSeq(catalog.playlists, LAMBDA d : playlistMatches(q, d)))
    /\ UNCHANGED <<Track, Playlist, last, Page, Contact, catalog, proc>>

\* ----------------------------------------------------------- GET /api/pages
pageMatches(q, d) ==
    /\ (q.group # NoText => q.group \in d.groups)
    /\ (q.search # NoText =>
           \/ regexOptionsI(q.search, d.title)
           \/ regexOptionsI(q.search, d.description)
           \/ regexOptionsI(q.search, d.content))
\* .select('-content')
withoutContent(docs) == [i \in 1..Len(docs) |-> [docs[i] EXCEPT !.content = NoText]]
ListPages(q) ==
    /\ resp' = listResponse("listPages", q,
                            withoutContent(SelectSeq(catalog.pages, LAMBDA d : pageMatches(q, d))))
    /\ UNCHANGED <<Track, Playlist, last, Page, Contact, catalog, proc>>

\* ------------------------------------------------- listed collections, queries
TrackDocs == [title : {<<"b">>, <<"A">>}, description : {NoText, <<"a">>},
              author : {<<"a">>, <<"A", "b">>, <<"b">>}, category : {NoText, <<"a">>, <<"A", "b">>}]
PlaylistDocs == [title : {<<"b">>}, description : {NoText, <<"a">>},
                 createdBy : {NoText, <<"a">>, <<"A", "b">>}, isPublic : BOOLEAN,
                 tags : {{}, {<<"a">>}}]
PageDocs == [title : {<<"a">>, <<"b">>}, description : {<<"b">>},
             content : {NoText, <<"A", "b">>}, groups : {{}, {<<"a">>}}]
\* long collections hold documents that differ in one filtered field only
LongTrackDocs == {d \in TrackDocs : d.title = <<"b">> /\ d.description = NoText /\ d.author = <<"b">>
                                    /\ d.category \in {NoText, <<"a">>}}
LongPlaylistDocs == {d \in PlaylistDocs : d.description = NoText /\ d.createdBy = <<"a">> /\ d.tags = {}}
LongPageDocs == {d \in PageDocs : d.title = <<"b">> /\ d.content = NoText}
Collections(long, all) == SeqsUpTo(long, MaxDocs) \cup {<<d>> : d \in all}
Catalogs ==
    {[EmptyCatalog EXCEPT !.tracks = c] : c \in Collections(LongTrackDocs, TrackDocs)}
    \cup {[EmptyCatalog EXCEPT !.playlists = c] : c \in Collections(LongPlaylistDocs, PlaylistDocs)}
    \cup {[EmptyCatalog EXCEPT !.pages = c] : c \in Collections(LongPageDocs, PageDocs)}
QueryTexts == {NoText, <<"a">>, <<".">>}
Numbers == DigitStrings \cup {NoParam}
\* a list request either pages through a collection under one filter or
\* combines the filters on the first page
TrackQueries ==
    [page : Numbers, limit : Numbers, category : {NoText, <<"a">>}, author : {NoText}, search : {NoText}]
    \cup [page : {NoParam}, limit : {NoParam}, category : {NoText, <<"a">>, <<"A", "b">>},
          author : QueryTexts, search : QueryTexts]
PlaylistQueries ==
    [page : Numbers, limit : Numbers, createdBy : {NoText}, isPublic : {"absent", "true"},
     tag : {NoText}, search : {NoText}]
    \cup [page : {NoParam}, limit : {NoParam}, createdBy : {NoText, <<"a">>},
          isPublic : {"absent", "true", "false", "yes"}, tag : {NoText, <<"a">>}, search : {NoText, <<"a">>}]
PageQueries ==
    [page : Numbers, limit : Numbers, group : {NoText, <<"a">>}, search : {NoText}]
    \cup [page : {NoParam}, limit : {NoParam}, group : {NoText, <<"a">>}, search : QueryTexts]

InitList == /\ Track = [t \in TrackIds |-> NoTrack]
            /\ Playlist = [p \in PlaylistIds |-> NoPlaylist]
            /\ last = Idle
            /\ Page = [g \in PageIds |-> NoPage]
            /\ Contact = [c \in ContactIds |-> "none"]
            /\ catalog \in Catalogs
            /\ resp = NoResp
            /\ proc = [i \in Procs |-> IdleProc]
NextList ==
    \/ \E q \in TrackQueries : ListTracks(q)
    \/ \E q \in PlaylistQueries : ListPlaylists(q)
    \/ \E q \in PageQueries : ListPages(q)
SpecList == InitList /\ [][NextList]_vars

\* ==================================================================== pages
\* String.prototype.trim / the schema's trim: true
RECURSIVE trim(_)
trim(text) ==
    IF text = <<>> THEN text
    ELSE IF Head(text) = " " THEN trim(Tail(text))
    ELSE IF text[Len(text)] = " " THEN trim(SubSeq(text, 1, Len(text) - 1))
    ELSE text
lowercase(text) == [i \in 1..Len(text) |-> toLowerCase(text[i])]
\* slug.replace(/\s+/g, '-') on a trimmed text
RECURSIVE hyphenate(_)
hyphenate(text) ==
    IF text = <<>> THEN text
    ELSE IF Head(text) # " " THEN <<Head(text)>> \o hyphenate(Tail(text))
    ELSE IF Len(text) > 1 /\ text[2] = " " THEN hyphenate(Tail(text))
    ELSE <<"-">> \o hyphenate(Tail(text))
\* slugify(text, { lower: true, strict: true }): the replacement character
\* reads as a space, every character but letters, digits and spaces is
\* dropped, the text is trimmed, runs of spaces become one hyphen, letters are
\* lowered
slugify(text) ==
    LET spaced == [i \in 1..Len(text) |-> IF text[i] = "-" THEN " " ELSE text[i]]
        strict == SelectSeq(spaced, LAMBDA c : c # ".")
    IN lowercase(hyphenate(trim(strict)))
\* the slug path's setters (trim: true, lowercase: true), run when a document
\* is built, when an update is cast and when a query names the path
slugSetters(text) == lowercase(trim(text))
\* a variant of the pre-check that does not leave out the updated document
slugTakenByAny(slug, except) ==
    \E g \in PageIds : Page[g].st = "live" /\ Page[g].slug = slugSetters(slug)
\* Page.findOne({ slug }): some stored Page, other than `except`, has the slug
slugTaken(slug, except) ==
    \E g \in PageIds \ {except} : Page[g].st = "live" /\ Page[g].slug = slugSetters(slug)
\* the unique index on slug: an insert or update that would store a slug
\* another document has is refused with error code 11000
uniqueIndexRefuses(slug, except) ==
    \E g \in PageIds \ {except} : Page[g].st = "live" /\ Page[g].slug = slug
\* new Page(pageData): body: [title, slug], slug = NoText when the body has none
newPage(body) == pageSchema(trim(body.title), slugSetters(body.slug))
\* the validation save() runs first: title and slug are required
validateBeforeSave(doc) == doc.title # NoText /\ doc.slug # NoText
\* pageSchema.pre('save'), first hook: a slug from the title when there is none
slugFromTitle(doc) ==
    IF doc.slug = NoText /\ doc.title # NoText THEN [doc EXCEPT !.slug = slugify(doc.title)] ELSE doc
\* pageSchema.pre('save'), second hook: the slug in URL form
slugUrlFriendly(doc) == IF doc.slug # NoText THEN [doc EXCEPT !.slug = slugify(@)] ELSE doc
\* the document save() hands to the store
pageToInsert(body) == slugUrlFriendly(slugFromTitle(newPage(body)))

\* -------------------------------------------------------- POST /api/pages
createPageStatus(body, fail) ==
    IF fail THEN 500
    ELSE IF body.slug # NoText /\ slugTaken(body.slug, Ghost) THEN 400
    ELSE IF ~validateBeforeSave(newPage(body)) THEN 500
    ELSE IF uniqueIndexRefuses(pageToInsert(body).slug, Ghost) THEN 400
    ELSE 201
CreatePage(body, fail) ==
    /\ \E g \in PageIds : Page[g].st = "none"
    /\ last' = Respond("createPage", NewPageId, NoId, createPageStatus(body, fail))
    /\ IF createPageStatus(body, fail) = 201
       THEN Page' = [Page EXCEPT ![NewPageId] = pageToInsert(body)]
       ELSE UNCHANGED Page
    /\ UNCHANGED <<musicVars, Contact, catalog, resp, proc>>

\* ------------------------------------------------------ PUT /api/pages/:id
\* Page.findByIdAndUpdate(id, updateData, { runValidators }): the supplied
\* paths are cast (setters run) and set; no save(), so no pre-save hook runs
pageAfterPut(doc, body) ==
    [doc EXCEPT !.title = trim(body.title),
                !.slug = IF body.slug # NoText THEN slugSetters(body.slug) ELSE @]
updatePageStatus(g, body, fail) ==
    IF fail THEN 500
    ELSE IF body.slug # NoText /\ slugTaken(body.slug, g) THEN 400
    ELSE IF ~(g \in PageIds /\ Page[g].st = "live") THEN 404
    ELSE IF uniqueIndexRefuses(pageAfterPut(Page[g], body).slug, g) THEN 400
    ELSE 200
UpdatePage(g, body, fail) ==
    /\ last' = Respond("updatePage", g, NoId, updatePageStatus(g, body, fail))
    /\ IF updatePageStatus(g, body, fail) = 200
       THEN Page' = [Page EXCEPT ![g] = pageAfterPut(@, body)]
       ELSE UNCHANGED Page
    /\ UNCHANGED <<musicVars, Contact, catalog, resp, proc>>

\* --------------------------------------------------- DELETE /api/pages/:id
\* a variant that reports success whether or not the document exists
deletePageStatusAlways(g, fail) == IF fail THEN 500 ELSE 200
deletePageStatus(g, fail) ==
    IF fail THEN 500 ELSE IF g \in PageIds /\ Page[g].st = "live" THEN 200 ELSE 404
DeletePage(g, fail) ==
    /\ last' = Respond("deletePage", g, NoId, deletePageStatus(g, fail))
    /\ IF deletePageStatus(g, fail) = 200
       THEN Page' = [Page EXCEPT ![g] = GonePage]
       ELSE UNCHANGED Page
    /\ UNCHANGED <<musicVars, Contact, catalog, resp, proc>>

\* ------------------------------------------------------- the Page requests
\* titles and slugs a client sends: letters in both cases, a space, a hyphen,
\* a character that slugs may not hold
PageTexts == {<<"a">>, <<"A">>, <<"a", " ", "b">>, <<"a", "-", "b">>, <<"a", ".">>}
PageBodies == [title : PageTexts, slug : PageTexts \cup {NoText}]
NextPage ==
    \/ \E body \in PageBodies, fail \in BOOLEAN : CreatePage(body, fail)
    \/ \E g \in KnownPages, body \in PageBodies, fail \in BOOLEAN : UpdatePage(g, body, fail)
    \/ \E g \in KnownPages, fail \in BOOLEAN : DeletePage(g, fail)
SpecPage == Init /\ [][NextPage]_vars

\* ================================================================= contacts
\* POST /api/contact: the handler's own checks of name and email, then save()
createContactStatus(wellFormed, fail) == IF ~wellFormed THEN 400 ELSE IF fail THEN 500 ELSE 200
CreateContact(wellFormed, fail) ==
    /\ \E c \in ContactIds : Contact[c] = "none"
    /\ last' = Respond("createContact", NewContactId, NoId, createContactStatus(wellFormed, fail))
    /\ IF createContactStatus(wellFormed, fail) = 200
       THEN Contact' = [Contact EXCEPT ![NewContactId] = "live"]
       ELSE UNCHANGED Contact
    /\ UNCHANGED <<musicVars, Page, catalog, resp, proc>>
\* GET /api/contact: reads only
ListContacts(fail) ==
    /\ last' = Respond("listContacts", NoId, NoId, IF fail THEN 500 ELSE 200)
    /\ UNCHANGED <<musicVars, Page, Contact, catalog, resp, proc>>
\* DELETE /api/contact/:id
deleteContactStatus(c, fail) ==
    IF fail THEN 500 ELSE IF c \in ContactIds /\ Contact[c] = "live" THEN 200 ELSE 404
DeleteContact(c, fail) ==
    /\ last' = Respond("deleteContact", c, NoId, deleteContactStatus(c, fail))
    /\ IF deleteContactStatus(c, fail) = 200
       THEN Contact' = [Contact EXCEPT ![c] = "gone"]
       ELSE UNCHANGED Contact
    /\ UNCHANGED <<musicVars, Page, catalog, resp, proc>>

\* ======================================================== the middleware chain
\* User documents: user 1 is active, user 2 is not, no other id names a user
User == <<[isActive |-> TRUE], [isActive |-> FALSE]>>
\* what the Authorization header carries: nothing, a token jwt.verify rejects,
\* or a token that verifies and names a userId
Credentials == [kind : {"none", "rejected"}, userId : {Ghost}]
               \cup [kind : {"verified"}, userId : {Ghost} \cup DOMAIN User]
\* next(): the chain goes on
Pass == 0
\* a variant that lets every request through
authenticateNobody(cred) == Pass
\* authenticate: 401 without a token, when verification throws, or when the
\* user is missing or inactive; otherwise next()
authenticate(cred) ==
    IF cred.kind = "none" THEN 401
    ELSE IF cred.kind = "rejected" THEN 401
    ELSE IF cred.userId \notin DOMAIN User \/ ~User[cred.userId].isActive THEN 401
    ELSE Pass
\* the routes registered with authenticate in their chain
authenticated == {"createTrack", "updateTrack", "deleteTrack", "createPlaylist", "updatePlaylist",
                  "deletePlaylist", "addTracks", "removeTrack", "createPage", "updatePage",
                  "deletePage", "listContacts", "deleteContact"}
\* the routes registered with express-validator rules and handleValidationErrors
validated == authenticated \ {"listContacts", "deleteContact"}
\* a response sent by a middleware: no handler runs, no document changes
Answer(op, status) ==
    /\ last' = Respond(op, NoId, NoId, status)
    /\ UNCHANGED <<musicVars, Page, Contact, catalog, resp, proc>>
\* a route's chain: authenticate, the validation rules with
\* handleValidationErrors (rulesPass: the request passes every rule), the handler
Route(op, cred, rulesPass, handler) ==
    IF op \in authenticated /\ authenticate(cred) # Pass THEN Answer(op, 401)
    ELSE IF op \in validated /\ ~rulesPass THEN Answer(op, 400)
    ELSE handler

\* ------------------------------------------------------ the routes, chained
PostTracks(cred, rulesPass, pid, fail) ==
    Route("createTrack", cred, rulesPass, CreateTrack(pid, fail))
PutTracksId(cred, rulesPass, t, pid, fail) ==
    Route("updateTrack", cred, rulesPass, UpdateTrack(t, pid, fail))
DeleteTracksId(cred, rulesPass, t, fail) ==
    Route("deleteTrack", cred, rulesPass, DeleteTrack(t, fail))
PostPlaylists(cred, rulesPass, body, fail) ==
    Route("createPlaylist", cred, rulesPass, CreatePlaylist(body, fail))
PutPlaylistsId(cred, rulesPass, p, body, fail) ==
    Route("updatePlaylist", cred, rulesPass, UpdatePlaylist(p, body, fail))
DeletePlaylistsId(cred, rulesPass, p, fail) ==
    Route("deletePlaylist", cred, rulesPass, DeletePlaylist(p, fail))
PutPlaylistsIdTracks(cred, rulesPass, p, trackIds, fail) ==
    Route("addTracks", cred, rulesPass, AddTracks(p, trackIds, fail))
DeletePlaylistsIdTracksId(cred, rulesPass, p, trackId, fail) ==
    Route("removeTrack", cred, rulesPass, RemoveTrack(p, trackId, fail))
PostPages(cred, rulesPass, body, fail) ==
    Route("createPage", cred, rulesPass, CreatePage(body, fail))
PutPagesId(cred, rulesPass, g, body, fail) ==
    Route("updatePage", cred, rulesPass, UpdatePage(g, body, fail))
DeletePagesId(cred, rulesPass, g, fail) ==
    Route("deletePage", cred, rulesPass, DeletePage(g, fail))
PostContact(wellFormed, fail) ==
    Route("createContact", [kind |-> "none", userId |-> Ghost], TRUE, CreateContact(wellFormed, fail))
GetContact(cred, fail) ==
    Route("listContacts", cred, TRUE, ListContacts(fail))
DeleteContactId(cred, c, fail) ==
    Route("deleteContact", cred, TRUE, DeleteContact(c, fail))

\* request bodies and id lists of the chained routes
CountBody == [hasTracks |-> FALSE, tracks |-> <<>>, hasCount |-> TRUE, trackCount |-> 1]
GatePageBodies == [title : {<<"a">>}, slug : {<<"a">>, <<"b">>}]
GateTrackIds == SeqsUpTo({toString(t) : t \in KnownTracks} \cup {Malformed}, MaxIds)

\* documents ever created, over all collections
Stored == Cardinality(KnownTracks) + Cardinality(KnownPlaylists \ {Ghost})
          + Cardinality(KnownPages \ {Ghost}) + Cardinality(KnownContacts \ {Ghost})

\* every route through its chain, while the store holds few documents
NextGate ==
    \/ \E cred \in Credentials, rulesPass \in BOOLEAN, pid \in LivePlaylists \cup {NoId} :
          Stored < MaxStored /\ PostTracks(cred, rulesPass, pid, NoFail)
    \/ \E cred \in Credentials, rulesPass \in BOOLEAN, t \in KnownTracks \cup {Ghost},
          pid \in LivePlaylists \cup {NoId} : PutTracksId(cred, rulesPass, t, pid, NoFail)
    \/ \E cred \in Credentials, rulesPass \in BOOLEAN, t \in KnownTracks \cup {Ghost} :
          DeleteTracksId(cred, rulesPass, t, FALSE)
    \/ \E cred \in Credentials, rulesPass \in BOOLEAN :
          Stored < MaxStored /\ PostPlaylists(cred, rulesPass, EmptyBody, FALSE)
    \/ \E cred \in Credentials, rulesPass \in BOOLEAN, p \in KnownPlaylists, body \in {EmptyBody, CountBody} :
          PutPlaylistsId(cred, rulesPass, p, body, FALSE)
    \/ \E cred \in Credentials, rulesPass \in BOOLEAN, p \in KnownPlaylists :
          DeletePlaylistsId(cred, rulesPass, p, FALSE)
    \/ \E cred \in Credentials, rulesPass \in BOOLEAN, p \in KnownPlaylists, trackIds \in GateTrackIds :
          PutPlaylistsIdTracks(cred, rulesPass, p, trackIds, FALSE)
    \/ \E cred \in Credentials, rulesPass \in BOOLEAN, p \in KnownPlaylists,
          t \in KnownTracks : DeletePlaylistsIdTracksId(cred, rulesPass, p, toString(t), FALSE)
    \/ \E cred \in Credentials, rulesPass \in BOOLEAN, body \in GatePageBodies :
          Stored < MaxStored /\ PostPages(cred, rulesPass, body, FALSE)
    \/ \E cred \in Credentials, rulesPass \in BOOLEAN, g \in KnownPages, body \in GatePageBodies :
          PutPagesId(cred, rulesPass, g, body, FALSE)
    \/ \E cred \in Credentials, rulesPass \in BOOLEAN, g \in KnownPages :
          DeletePagesId(cred, rulesPass, g, FALSE)
    \/ \E wellFormed \in BOOLEAN : Stored < MaxStored /\ PostContact(wellFormed, FALSE)
    \/ \E cred \in Credentials : GetContact(cred, FALSE)
    \/ \E cred \in Credentials, c \in KnownContacts : DeleteContactId(cred, c, FALSE)
SpecGate == Init /\ [][NextGate]_vars

\* ================================================ Page requests in flight
\* The Page handlers one store call at a time, so that the calls of several
\* requests interleave: the pre-check Page.findOne, then the write.
InFlight(op) == {i \in Procs : proc[i].op = op /\ proc[i].pc \notin {"idle", "done"}}
\* POST /api/pages (g = NoId) or PUT /api/pages/:id reaches its handler
PageArrives(i, op, g, body) ==
    /\ proc[i].pc = "idle"
    /\ op = "createPage" =>
          Cardinality({h \in PageIds : Page[h].st = "none"}) > Cardinality(InFlight("createPage"))
    /\ proc' = [proc EXCEPT ![i] = [IdleProc EXCEPT !.op = op, !.pc = "findOne",
                                                    !.id = g, !.body = body]]
    /\ UNCHANGED <<musicVars, last, Page, Contact, catalog, resp>>
\* if (pageData.slug) { existingPage = await Page.findOne({ slug }) ... 400 }
PageFindOne(i) ==
    LET r == proc[i]
        except == IF r.op = "createPage" THEN Ghost ELSE r.id
    IN /\ r.pc = "findOne"
       /\ proc' = [proc EXCEPT ![i] =
                      IF r.body.slug # NoText /\ slugTaken(r.body.slug, except)
                      THEN [r EXCEPT !.pc = "done", !.status = 400]
                      ELSE [r EXCEPT !.pc = "write"]]
       /\ UNCHANGED <<musicVars, last, Page, Contact, catalog, resp>>
\* await page.save() and the handler's catch: error code 11000 on slug is 400
pageSaveStatus(body) ==
    IF ~validateBeforeSave(newPage(body)) THEN 500
    ELSE IF uniqueIndexRefuses(pageToInsert(body).slug, Ghost) THEN 400
    ELSE 201
PageSave(i) ==
    LET r == proc[i]
    IN /\ r.pc = "write" /\ r.op = "createPage"
       /\ IF pageSaveStatus(r.body) = 201
          THEN /\ Page' = [Page EXCEPT ![NewPageId] = pageToInsert(r.body)]
               /\ proc' = [proc EXCEPT ![i] = [r EXCEPT !.pc = "done", !.status = 201,
                                                        !.id = NewPageId]]
          ELSE /\ UNCHANGED Page
               /\ proc' = [proc EXCEPT ![i] = [r EXCEPT !.pc = "done",
                                                        !.status = pageSaveStatus(r.body)]]
       /\ UNCHANGED <<musicVars, last, Contact, catalog, resp>>
\* await Page.findByIdAndUpdate(id, updateData, ...), null is 404, and the catch
pageWriteStatus(g, body) ==
    IF ~(g \in PageIds /\ Page[g].st = "live") THEN 404
    ELSE IF uniqueIndexRefuses(pageAfterPut(Page[g], body).slug, g) THEN 400
    ELSE 200
PageFindByIdAndUpdate(i) ==
    LET r == proc[i]
    IN /\ r.pc = "write" /\ r.op = "updatePage"
       /\ IF pageWriteStatus(r.id, r.body) = 200
          THEN Page' = [Page EXCEPT ![r.id] = pageAfterPut(@, r.body)]
          ELSE UNCHANGED Page
       /\ proc' = [proc EXCEPT ![i] = [r EXCEPT !.pc = "done",
                                                !.status = pageWriteStatus(r.id, r.body)]]
       /\ UNCHANGED <<musicVars, last, Contact, catalog, resp>>
\* every request in flight has answered: the next requests find the store as
\* these left it
Answered ==
    /\ \E i \in Procs : proc[i].pc = "done"
    /\ \A i \in Procs : proc[i].pc \in {"idle", "done"}
    /\ proc' = [i \in Procs |-> IdleProc]
    /\ UNCHANGED <<musicVars, last, Page, Contact, catalog, resp>>

\* the bodies of racing requests: one title, slugs in both cases, or no slug
RaceSlugs == {NoText, <<"a">>, <<"A">>, <<"b">>}
RaceBodies == [title : {<<"a">>}, slug : RaceSlugs]
NextPageRace ==
    \/ \E i \in Procs, body \in RaceBodies : PageArrives(i, "createPage", NoId, body)
    \/ \E i \in Procs, g \in LivePages, body \in RaceBodies : PageArrives(i, "updatePage", g, body)
    \/ \E i \in Procs : PageFindOne(i)
    \/ \E i \in Procs : PageSave(i)
    \/ \E i \in Procs : PageFindByIdAndUpdate(i)
    \/ Answered
SpecPageRace == Init /\ [][NextPageRace]_vars

\* =============================================== Track requests in flight
\* POST /api/tracks and PUT /api/tracks/:id one store call at a time. Each call
\* a request issues is logged in its `writes`: "track" for a write of the Track
\* document, "playlist" for a membership update of a Playlist.
Unsaved == {i \in Procs : proc[i].op = "createTrack" /\ proc[i].pc = "save"}
issue(r, write) == [r EXCEPT !.writes = Append(@, write)]
answer(r, status) == [r EXCEPT !.pc = "done", !.status = status]
\* the request passed authenticate and the validation rules; pid = NoId when
\* the body has no playlistId
TrackArrives(i, op, t, pid) ==
    /\ proc[i].pc = "idle"
    /\ op = "createTrack" =>
          Cardinality({u \in TrackIds : Track[u].st = "none"}) > Cardinality(Unsaved)
    /\ proc' = [proc EXCEPT ![i] = [IdleProc EXCEPT !.op = op, !.id = t, !.arg = pid,
                    !.pc = IF op = "createTrack" THEN "save" ELSE "findById"]]
    /\ UNCHANGED <<musicVars, last, Page, Contact, catalog, resp>>
\* const track = new Track(trackData); await track.save();
TrackSave(i, fail) ==
    LET r == proc[i]
    IN /\ r.pc = "save"
       /\ IF fail
          THEN /\ UNCHANGED Track
               /\ proc' = [proc EXCEPT ![i] = answer(r, 500)]
          ELSE /\ Track' = [Track EXCEPT ![NewTrackId] = trackSchema(<<>>)]
               /\ proc' = [proc EXCEPT ![i] =
                              IF r.arg # NoId
                              THEN [issue(r, "track") EXCEPT !.id = NewTrackId, !.pc = "add"]
                              ELSE [answer(issue(r, "track"), 201) EXCEPT !.id = NewTrackId]]
       /\ UNCHANGED <<Playlist, last, Page, Contact, catalog, resp>>
\* try { await Playlist.findByIdAndUpdate(playlistId, { $addToSet, $inc }) ...
\* in both handlers; an error is caught and logged
PlaylistAdd(i, fail) ==
    LET r == proc[i]
    IN /\ r.pc = "add"
       /\ Playlist' = IF fail THEN Playlist ELSE addTrackToPlaylist(Playlist, r.arg, r.id)
       /\ InBounds(Playlist')
       /\ proc' = [proc EXCEPT ![i] =
                      IF r.op = "createTrack" /\ ~fail
                      THEN [issue(r, "playlist") EXCEPT !.pc = "save2"]
                      ELSE answer(issue(r, "playlist"), IF r.op = "createTrack" THEN 201 ELSE 200)]
       /\ UNCHANGED <<Track, last, Page, Contact, catalog, resp>>
\* ... track.playlists = [playlistId]; await track.save(); } catch { log }
TrackSaveAgain(i, fail) ==
    LET r == proc[i]
    IN /\ r.pc = "save2"
       /\ Track' = IF fail \/ Track[r.id].st # "live" THEN Track
                   ELSE [Track EXCEPT ![r.id].playlists = <<r.arg>>]
       /\ proc' = [proc EXCEPT ![i] = answer(issue(r, "track"), 201)]
       /\ UNCHANGED <<Playlist, last, Page, Contact, catalog, resp>>
\* a variant of the update handler that goes to the playlists first
afterTrackWriteSkipped(r) == IF r.old # <<>> THEN "pull" ELSE "add"
\* where the update handler stands once Track.findById has answered
afterFindById(r) == "findByIdAndUpdate"
\* const currentTrack = await Track.findById(id); null is 404
TrackFindById(i, fail) ==
    LET r == proc[i]
    IN /\ r.pc = "findById"
       /\ proc' = [proc EXCEPT ![i] =
                      IF fail THEN answer(r, 500)
                      ELSE IF r.id \notin TrackIds \/ Track[r.id].st # "live" THEN answer(r, 404)
                      ELSE [r EXCEPT !.old = Track[r.id].playlists, !.pc = afterFindById(r)]]
       /\ UNCHANGED <<musicVars, last, Page, Contact, catalog, resp>>
\* where it stands once the Track is written: if (playlistId !== undefined)
\* the old playlists are left one by one, then the new one is joined
afterTrackWrite(r) ==
    IF r.arg = NoId THEN "done" ELSE IF r.old # <<>> THEN "pull" ELSE "add"
\* const track = await Track.findByIdAndUpdate(id, updateData, ...)
\* It is logged as "miss" when it matched no document and resolved to null;
\* the handler does not look at what it resolved to before it goes on.
TrackFindByIdAndUpdate(i, fail) ==
    LET r == proc[i]
        write == IF Track[r.id].st = "live" THEN "track" ELSE "miss"
    IN /\ r.pc = "findByIdAndUpdate"
       /\ Track' = IF fail \/ Track[r.id].st # "live" THEN Track
                   ELSE [Track EXCEPT ![r.id] = trackAfterUpdate(r.id, r.arg, NoFail)]
       /\ proc' = [proc EXCEPT ![i] =
                      IF fail THEN answer(r, 500)
                      ELSE IF afterTrackWrite(r) = "done" THEN answer(issue(r, write), 200)
                      ELSE [issue(r, write) EXCEPT !.pc = afterTrackWrite(r)]]
       /\ UNCHANGED <<Playlist, last, Page, Contact, catalog, resp>>
\* for (const oldPlaylistId of oldPlaylists) try { $pull, $inc: -1 } catch { log }
PlaylistPull(i, fail) ==
    LET r == proc[i]
    IN /\ r.pc = "pull"
       /\ Playlist' = IF fail THEN Playlist
                      ELSE removeTrackFromPlaylist(Playlist, Head(r.old), r.id)
       /\ InBounds(Playlist')
       /\ proc' = [proc EXCEPT ![i] =
                      [issue(r, "playlist") EXCEPT !.old = Tail(@),
                           !.pc = IF Tail(r.old) # <<>> THEN "pull" ELSE "add"]]
       /\ UNCHANGED <<Track, last, Page, Contact, catalog, resp>>

\* Track creates and updates in flight together, over one playlist created
\* empty
NextTrackSteps ==
    \/ LivePlaylists = {} /\ CreatePlaylist(EmptyBody, FALSE)
    \/ \E i \in Procs, pid \in LivePlaylists \cup {NoId} :
          TrackArrives(i, "createTrack", NoId, pid)
    \/ \E i \in Procs, t \in KnownTracks, pid \in LivePlaylists \cup {NoId} :
          TrackArrives(i, "updateTrack", t, pid)
    \/ \E i \in Procs, fail \in BOOLEAN : TrackSave(i, fail)
    \/ \E i \in Procs, fail \in BOOLEAN : PlaylistAdd(i, fail)
    \/ \E i \in Procs, fail \in BOOLEAN : TrackSaveAgain(i, fail)
    \/ \E i \in Procs, fail \in BOOLEAN : TrackFindById(i, fail)
    \/ \E i \in Procs, fail \in BOOLEAN : TrackFindByIdAndUpdate(i, fail)
    \/ \E i \in Procs, fail \in BOOLEAN : PlaylistPull(i, fail)
    \/ Answered
SpecTrackSteps == Init /\ [][NextTrackSteps]_vars

\* ======================================= the playlistId of a Track update
\* req.body.playlistId as the client sent it: not there, null, the empty
\* string, or a string that may or may not be 24 hex digits
BodyValue(is, str) == [is |-> is, str |-> str]
Undefined == BodyValue("undefined", Malformed)
Null == BodyValue("null", Malformed)
EmptyString == BodyValue("empty", Malformed)
\* body('playlistId').optional().isMongoId(): optional() passes over undefined
\* only; null and '' are read as the string '' and are no Mongo id
optionalIsMongoId(v) == v.is = "undefined" \/ (v.is = "string" /\ isHex24(v.str))
\* if (updateData.playlistId): a non-empty string
truthy(v) == v.is = "string"
putTrackStatus(t, v, fail) ==
    IF ~optionalIsMongoId(v) THEN 400 ELSE updateTrackStatus(t, fail)
\* PUT /api/tracks/:id behind trackValidationRules and handleValidationErrors.
\* With a playlistId that is there but falsy the handler pulls the track from
\* its old playlists, joins none, and sets track.playlists = [] on the
\* response object only.
PutTrack(t, v, fail) ==
    IF ~optionalIsMongoId(v)
    THEN /\ last' = Respond("updateTrack", t, NoId, putTrackStatus(t, v, fail))
         /\ UNCHANGED <<Track, Playlist>>
         /\ UNCHANGED otherVars
    ELSE IF v.is = "undefined" THEN UpdateTrack(t, NoId, fail)
    ELSE IF truthy(v) THEN UpdateTrack(t, castObjectId(v.str), fail)
    ELSE /\ last' = Respond("updateTrack", t, NoId, putTrackStatus(t, v, fail))
         /\ IF putTrackStatus(t, v, fail) = 200
            THEN /\ Playlist' = removeFromOld(Playlist, Track[t].playlists, t, fail.remove)
                 /\ InBounds(Playlist')
            ELSE UNCHANGED Playlist
         /\ UNCHANGED Track
         /\ UNCHANGED otherVars

BodyPlaylistIds ==
    {Undefined, Null, EmptyString}
        \cup {BodyValue("string", str) : str \in HexStrings(LivePlaylists) \cup {Malformed}}
\* Track updates with every kind of playlistId, over tracks created into
\* playlists that were created empty
NextPutTrack ==
    \/ CreatePlaylist(EmptyBody, FALSE)
    \/ \E pid \in LivePlaylists : CreateTrack(pid, NoFail)
    \/ \E t \in LiveTracks, v \in BodyPlaylistIds : PutTrack(t, v, NoFail)
SpecPutTrack == Init /\ [][NextPutTrack]_vars

\* ============================================ Tracks with listed playlists
\* POST /api/tracks with a body that has a playlists array and no playlistId:
\* playlists is a path of trackSchema, so new Track(trackData) keeps the array
\* as the client wrote it, and no playlist is touched
CreateTrackListed(pls) ==
    /\ \E t \in TrackIds : Track[t].st = "none"
    /\ Track' = [Track EXCEPT ![NewTrackId] = trackSchema(pls)]
    /\ last' = Respond("createTrack", NewTrackId, NoId, 201)
    /\ UNCHANGED Playlist
    /\ UNCHANGED otherVars
\* the playlists arrays of such bodies: some stored playlists, each once, in
\* the order of their creation
ListedPlaylists ==
    {pls \in SeqsUpTo(LivePlaylists, MaxIds) :
        pls # <<>> /\ \A i, j \in 1..Len(pls) : i < j => pls[i] < pls[j]}
\* Track updates with failing steps, over tracks whose playlists field names
\* up to MaxIds playlists
NextListed ==
    \/ CreatePlaylist(EmptyBody, FALSE)
    \/ \E pls \in ListedPlaylists : CreateTrackListed(pls)
    \/ \E t \in LiveTracks, pid \in LivePlaylists : \E fail \in UpdateFails(t) :
          UpdateTrack(t, pid, fail)
SpecListed == Init /\ [][NextListed]_vars

\* Track creates in flight together, without failures, each into a stored
\* playlist
NextCreates ==
    \/ CreatePlaylist(EmptyBody, FALSE)
    \/ \E i \in Procs, pid \in LivePlaylists : TrackArrives(i, "createTrack", NoId, pid)
    \/ \E i \in Procs : TrackSave(i, FALSE)
    \/ \E i \in Procs : PlaylistAdd(i, FALSE)
    \/ \E i \in Procs : TrackSaveAgain(i, FALSE)
    \/ Answered
SpecCreates == Init /\ [][NextCreates]_vars

\* a Track update in flight while the track is deleted: updates one store call
\* at a time, creates and deletes in one step, without failures, one playlist
NextUpdateDelete ==
    \/ LivePlaylists = {} /\ CreatePlaylist(EmptyBody, FALSE)
    \/ \E pid \in LivePlaylists \cup {NoId} : CreateTrack(pid, NoFail)
    \/ \E i \in Procs, t \in LiveTracks, pid \in LivePlaylists :
          TrackArrives(i, "updateTrack", t, pid)
    \/ \E i \in Procs : TrackFindById(i, FALSE)
    \/ \E i \in Procs : TrackFindByIdAndUpdate(i, FALSE)
    \/ \E i \in Procs : PlaylistPull(i, FALSE)
    \/ \E i \in Procs : PlaylistAdd(i, FALSE)
    \/ \E t \in LiveTracks : DeleteTrack(t, FALSE)
    \/ Answered
SpecUpdateDelete == Init /\ [][NextUpdateDelete]_vars

\* ============================================ Playlist requests in flight
\* PUT /api/playlists/:id/tracks and DELETE /api/playlists/:id/tracks/:trackId
\* one store call at a time: Playlist.findById loads the document, the handler
\* changes the loaded copy, playlist.save() sends what changed in the copy.
PlaylistSide == {"addTracks", "removeTrack"}
\* the request passed authenticate, the validation rules and the handler's
\* test of the id strings
PlaylistArrives(i, op, p, trackIds) ==
    /\ proc[i].pc = "idle"
    /\ proc' = [proc EXCEPT ![i] = [IdleProc EXCEPT !.op = op, !.pc = "findPlaylist",
                                                    !.id = p, !.ids = trackIds]]
    /\ UNCHANGED <<musicVars, last, Page, Contact, catalog, resp>>
\* const playlist = await Playlist.findById(id); null is 404
PlaylistFindById(i) ==
    LET r == proc[i]
    IN /\ r.pc = "findPlaylist"
       /\ proc' = [proc EXCEPT ![i] =
                      IF r.id \notin PlaylistIds \/ Playlist[r.id].st # "live" THEN answer(r, 404)
                      ELSE [r EXCEPT !.doc = Playlist[r.id], !.pc = "savePlaylist"]]
       /\ UNCHANGED <<musicVars, last, Page, Contact, catalog, resp>>
\* the loaded copy after the handler's loop or filter and the pre-save hook
copyToSave(r) ==
    IF r.op = "addTracks" THEN playlistAfterAddTracks(r.doc, r.ids)
    ELSE playlistAfterRemoveTrack(r.doc, r.ids[1])
\* what save() sends is the difference between the copy and the document as
\* loaded: ids pushed onto the array go as $push onto the stored array, an
\* array that was assigned goes as $set of the whole array, trackCount goes as
\* $set when the hook changed it
saved(stored, loaded, copy) ==
    LET n == Len(loaded.tracks)
        pushed == Len(copy.tracks) >= n /\ SubSeq(copy.tracks, 1, n) = loaded.tracks
    IN [stored EXCEPT
          !.tracks = IF pushed THEN @ \o SubSeq(copy.tracks, n + 1, Len(copy.tracks))
                     ELSE copy.tracks,
          !.trackCount = IF copy.trackCount # loaded.trackCount THEN copy.trackCount ELSE @]
\* await playlist.save(): validation of the copy, or a document that is gone,
\* ends in the catch (500)
PlaylistSave(i) ==
    LET r == proc[i]
        ok == Playlist[r.id].st = "live" /\ saveValidates(r.doc)
    IN /\ r.pc = "savePlaylist"
       /\ Playlist' = IF ok THEN [Playlist EXCEPT ![r.id] = saved(@, r.doc, copyToSave(r))]
                      ELSE Playlist
       /\ InBounds(Playlist')
       /\ proc' = [proc EXCEPT ![i] = answer(issue(r, "playlist"), IF ok THEN 200 ELSE 500)]
       /\ UNCHANGED <<Track, last, Page, Contact, catalog, resp>>

\* the id lists of add-tracks requests: ids of stored tracks as toString()
\* writes them
StoredTrackIds == SeqsUpTo({toString(t) : t \in LiveTracks}, MaxIds) \ {<<>>}
\* add-tracks requests in flight together on one playlist, over tracks created
\* without a playlist
NextAdds ==
    \/ LivePlaylists = {} /\ CreatePlaylist(EmptyBody, FALSE)
    \/ CreateTrack(NoId, NoFail)
    \/ \E i \in Procs, p \in LivePlaylists, trackIds \in StoredTrackIds :
          PlaylistArrives(i, "addTracks", p, trackIds)
    \/ \E i \in Procs : PlaylistFindById(i)
    \/ \E i \in Procs : PlaylistSave(i)
    \/ Answered
SpecAdds == Init /\ [][NextAdds]_vars

\* one playlist request and Track creates and updates in flight together on
\* one playlist, without failures
NextMixed ==
    \/ LivePlaylists = {} /\ CreatePlaylist(EmptyBody, FALSE)
    \/ \E i \in Procs, pid \in LivePlaylists : TrackArrives(i, "createTrack", NoId, pid)
    \/ \E i \in Procs, t \in LiveTracks, pid \in LivePlaylists :
          TrackArrives(i, "updateTrack", t, pid)
    \/ \E i \in Procs, p \in LivePlaylists, trackIds \in StoredTrackIds, op \in PlaylistSide :
          /\ \A j \in Procs : proc[j].op \notin PlaylistSide
          /\ op = "removeTrack" => Len(trackIds) = 1
          /\ PlaylistArrives(i, op, p, trackIds)
    \/ \E i \in Procs : TrackSave(i, FALSE)
    \/ \E i \in Procs : PlaylistAdd(i, FALSE)
    \/ \E i \in Procs : TrackSaveAgain(i, FALSE)
    \/ \E i \in Procs : TrackFindById(i, FALSE)
    \/ \E i \in Procs : TrackFindByIdAndUpdate(i, FALSE)
    \/ \E i \in Procs : PlaylistPull(i, FALSE)
    \/ \E i \in Procs : PlaylistFindById(i)
    \/ \E i \in Procs : PlaylistSave(i)
    \/ Answered
SpecMixed == Init /\ [][NextMixed]_vars

\* ================================================================= claims

\* C1: every stored Playlist has trackCount equal to the length of its tracks array.
C1_TrackCountIsLength ==
    \A p \in LivePlaylists : Playlist[p].trackCount = Len(Playlist[p].tracks)

\* C2: a failure-free Track create naming an existing playlist P leaves the new
\* id exactly once in P.tracks, P.trackCount one higher, and the stored Track
\* with playlists = [P].
C2_CreateAttaches ==
    [][\A pid \in LivePlaylists :
          CreateTrack(pid, NoFail) =>
             /\ Occurrences(Playlist'[pid].tracks, NewTrackId) = 1
             /\ Playlist'[pid].trackCount = Playlist[pid].trackCount + 1
             /\ Track'[NewTrackId] = trackSchema(<<pid>>)]_vars
C2_Witness ==
    /\ last.op = "createTrack" /\ last.status = 201 /\ last.arg \in LivePlaylists
    /\ Track[last.id] = trackSchema(<<last.arg>>)
    /\ Occurrences(Playlist[last.arg].tracks, last.id) = 1
    /\ Len(Playlist[last.arg].tracks) = 2

\* C3: playlists P1 # P2 start empty; right after create Track A in P1, a
\* failure-free update of A to P2 leaves A absent from P1 with trackCount 0 and
\* exactly once in P2 with trackCount 1.
JustCreatedIn(t, p1) ==
    /\ last = Done("createTrack", t, p1, 201)
    /\ Track[t] = trackSchema(<<p1>>)
    /\ Playlist[p1] = playlistSchema(<<t>>, 1)
C3_MovePlaylistSide ==
    [][\A t \in LiveTracks, p1, p2 \in LivePlaylists :
          (/\ p1 # p2
           /\ JustCreatedIn(t, p1)
           /\ Playlist[p2] = playlistSchema(<<>>, 0)
           /\ UpdateTrack(t, p2, NoFail)) =>
             /\ Occurrences(Playlist'[p1].tracks, t) = 0
             /\ Playlist'[p1].trackCount = 0
             /\ Occurrences(Playlist'[p2].tracks, t) = 1
             /\ Playlist'[p2].trackCount = 1]_vars
C3_Witness ==
    /\ last = Done("updateTrack", 1, 2, 200)
    /\ Playlist[1] = playlistSchema(<<>>, 0)
    /\ Playlist[2] = playlistSchema(<<1>>, 1)

\* C4: after a failure-free Track update that supplies playlist id N, the
\* stored Track has playlists = [N].
C4_UpdateStoresPlaylists ==
    [][\A t \in LiveTracks, pid \in LivePlaylists :
          UpdateTrack(t, pid, NoFail) => Track'[t].playlists = <<pid>>]_vars

\* C5: after failure-free Track creates and updates over playlists that began
\* empty, P is in T.playlists exactly when T is in P.tracks, and then once.
C5_RelationshipInvariant ==
    \A t \in LiveTracks, p \in LivePlaylists :
       /\ (p \in Range(Track[t].playlists)) <=> (t \in Range(Playlist[p].tracks))
       /\ Occurrences(Playlist[p].tracks, t) <= 1

\* the ids of `ids` not yet in `arr`, appended once each in first-occurrence order
RECURSIVE appendDistinct(_, _)
appendDistinct(arr, ids) ==
    IF ids = <<>> THEN arr
    ELSE appendDistinct(IF Head(ids) \in Range(arr) THEN arr ELSE Append(arr, Head(ids)), Tail(ids))
AddTracksInputs == SeqsUpTo(HexStrings(KnownTracks), MaxIds)

\* C6: add-tracks with any list of well-formed ids stores the old array followed
\* by each not-yet-present id once, in first-occurrence order, and on a playlist
\* whose count is right trackCount grows by the number of distinct new ids.
\* (Holding of every add-tracks step, this makes a second send of the same list
\* a step that changes nothing.)
C6_AddTracksSetSemantics ==
    [][\A p \in LivePlaylists, trackIds \in AddTracksInputs :
          AddTracks(p, trackIds, FALSE) =>
             /\ Playlist'[p].tracks = appendDistinct(Playlist[p].tracks, castAll(trackIds))
             /\ (Playlist[p].trackCount = Len(Playlist[p].tracks) =>
                    Playlist'[p].trackCount = Playlist[p].trackCount
                        + Cardinality(Range(castAll(trackIds)) \ Range(Playlist[p].tracks)))]_vars

\* C7: remove-track stores the old array without any occurrence of the track id,
\* order kept, with trackCount the new length; for an id that is no member (on a
\* playlist whose count is right) nothing changes.
C7_RemoveTrackFilters ==
    [][\A p \in LivePlaylists, trackId \in HexStrings(KnownTracks) :
          RemoveTrack(p, trackId, FALSE) =>
             /\ Playlist'[p].tracks =
                   SelectSeq(Playlist[p].tracks, LAMBDA x : x # castObjectId(trackId))
             /\ Playlist'[p].trackCount = Len(Playlist'[p].tracks)
             /\ (/\ castObjectId(trackId) \notin Range(Playlist[p].tracks)
                 /\ Playlist[p].trackCount = Len(Playlist[p].tracks)) => Playlist'[p] = Playlist[p]]_vars

\* C8: a successful Track delete changes that Track document only (every
\* playlist keeps its tracks and trackCount, stale references included); a
\* successful Playlist delete changes that Playlist document only.
C8_DeleteDoesNotCascade ==
    [][/\ (last'.op = "deleteTrack" /\ last'.status = 200) =>
             /\ Track[last'.id].st = "live"
             /\ Track' = [Track EXCEPT ![last'.id] = GoneTrack]
             /\ Playlist' = Playlist
       /\ (last'.op = "deletePlaylist" /\ last'.status = 200) =>
             /\ Playlist[last'.id].st = "live"
             /\ Playlist' = [Playlist EXCEPT ![last'.id] = GonePlaylist]
             /\ Track' = Track]_vars
C8_Witness ==
    /\ last.op = "deleteTrack" /\ last.status = 200
    /\ Track[last.id].st = "gone"
    /\ \E p \in LivePlaylists : last.id \in Range(Playlist[p].tracks)

\* C9: once the primary Track write of a create or update has succeeded, a
\* failing playlist add, playlist remove or follow-up Track write leaves the
\* Track stored and the response a success (201 / 200).
C9_SyncFailureIsSwallowed ==
    [][/\ last'.op = "createTrack" =>
            \A pid \in KnownPlaylists, fail \in CreateFails :
               (~fail.primary /\ (fail.add \/ fail.save2) /\ CreateTrack(pid, fail)) =>
                   /\ last' = Done("createTrack", NewTrackId, pid, 201)
                   /\ Track'[NewTrackId].st = "live"
       /\ last'.op = "updateTrack" =>
            \A t \in LiveTracks, pid \in KnownPlaylists : \A fail \in UpdateFails(t) :
               (~fail.primary /\ (fail.remove # {} \/ fail.add) /\ UpdateTrack(t, pid, fail)) =>
                   /\ last' = Done("updateTrack", t, pid, 200)
                   /\ Track'[t].st = "live"]_vars
C9_Witness ==
    /\ last.op = "createTrack" /\ last.status = 201 /\ last.arg \in LivePlaylists
    /\ Track[last.id] = trackSchema(<<>>)
    /\ last.id \notin Range(Playlist[last.arg].tracks)

InNoPlaylist(pls, t) == \A p \in PlaylistIds : t \notin Range(pls[p].tracks)
AddThrows == [NoFail EXCEPT !.add = TRUE]

\* C10 as stated: when the playlist update of a create fails (P missing, or the
\* call throws) no playlist holds the new id and the stored Track has playlists = [P].
C10_DanglingAlways ==
    [][\A pid \in KnownPlaylists, fail \in {NoFail, AddThrows} :
          ((pid \notin LivePlaylists \/ fail.add) /\ CreateTrack(pid, fail)) =>
             /\ InNoPlaylist(Playlist', NewTrackId)
             /\ Track'[NewTrackId] = trackSchema(<<pid>>)]_vars

\* C10 amended: when P does not exist no playlist holds the new id and the stored
\* Track has playlists = [P]; when the call on P throws no playlist holds the new
\* id and the stored Track has empty playlists.
C10_DanglingOnlyWhenMissing ==
    [][\A pid \in KnownPlaylists :
          /\ (pid \notin LivePlaylists /\ CreateTrack(pid, NoFail)) =>
                /\ InNoPlaylist(Playlist', NewTrackId)
                /\ Track'[NewTrackId] = trackSchema(<<pid>>)
          /\ CreateTrack(pid, AddThrows) =>
                /\ InNoPlaylist(Playlist', NewTrackId)
                /\ Track'[NewTrackId] = trackSchema(<<>>)]_vars
C10_Witness ==
    /\ last.op = "createTrack" /\ last.status = 201
    /\ last.arg # NoId /\ last.arg \notin LivePlaylists
    /\ Track[last.id] = trackSchema(<<last.arg>>)
    /\ InNoPlaylist(Playlist, last.id)

\* C20: in the state a successful Track create has left behind (its add step has
\* put the new id into playlist P), applying the add step once more for the same
\* track and playlist changes no playlist; and applying the remove step for a
\* track that is in no way a member of a playlist changes no playlist.
C20_ReplayChangesNothing ==
    /\ (/\ last.op = "createTrack" /\ last.status = 201 /\ last.arg \in LivePlaylists
        /\ last.id \in Range(Playlist[last.arg].tracks)) =>
            addTrackToPlaylist(Playlist, last.arg, last.id) = Playlist
    /\ \A p \in LivePlaylists, t \in KnownTracks :
          t \notin Range(Playlist[p].tracks) => removeTrackFromPlaylist(Playlist, p, t) = Playlist

\* ------------------------------------------------------------ list endpoints
\* the documents of the listed collection that the response's query matches,
\* oldest first, as the response shows them
Listed ==
    CASE resp.op = "listTracks" -> SelectSeq(catalog.tracks, LAMBDA d : trackMatches(resp.query, d))
      [] resp.op = "listPlaylists" -> SelectSeq(catalog.playlists, LAMBDA d : playlistMatches(resp.query, d))
      [] resp.op = "listPages" -> withoutContent(SelectSeq(catalog.pages, LAMBDA d : pageMatches(resp.query, d)))
      [] OTHER -> <<>>
Max(a, b) == IF a > b THEN a ELSE b
\* the least k with k * L >= N
Ceiling(N, L) == CHOOSE k \in 0..N : k * L >= N /\ (k = 0 \/ (k - 1) * L < N)
FirstPagesOf25 == [page |-> <<3>>, limit |-> <<1, 0>>]

\* C14: a list response for page p >= 1 and limit L >= 1 over N matching
\* documents carries min(L, max(0, N - (p-1)L)) documents, those at positions
\* (p-1)L+1 .. pL of the newest-first order, with currentPage = p,
\* itemsPerPage = L, totalItems = N and totalPages = ceil(N/L); 25 documents
\* with limit 10 and page 3 give 5 documents and 3 pages.
C14_PaginationArithmetic ==
    /\ (resp.op \in {"listTracks", "listPlaylists", "listPages"}
          /\ pageOf(resp.query) >= 1 /\ limitOf(resp.query) >= 1) =>
          LET N == Len(Listed)
              p == pageOf(resp.query)
              L == limitOf(resp.query)
              n == Min(L, Max(0, N - (p - 1) * L))
          IN /\ resp.status = 200
             /\ Len(resp.data) = n
             /\ \A k \in 1..n : resp.data[k] = Listed[N + 1 - ((p - 1) * L + k)]
             /\ resp.pagination = [currentPage |-> p, totalPages |-> Ceiling(N, L),
                                   totalItems |-> N, itemsPerPage |-> L]
    /\ LET r == listResponse("listTracks", FirstPagesOf25, [i \in 1..25 |-> i])
       IN Len(r.data) = 5 /\ r.data = <<5, 4, 3, 2, 1>> /\ r.pagination.totalPages = 3
C14_Witness ==
    /\ resp.op = "listTracks" /\ resp.status = 200
    /\ Len(Listed) = 3 /\ pageOf(resp.query) = 2 /\ limitOf(resp.query) = 2
    /\ Len(resp.data) = 1 /\ resp.pagination.totalPages = 2

\* text contains sub, letters compared without case
ContainsI(text, sub) ==
    \E i \in 1..(Len(text) - Len(sub) + 1) :
        \A j \in 1..Len(sub) : toLowerCase(text[i + j - 1]) = toLowerCase(sub[j])
\* text has a part that pattern describes: "." describes any character, a
\* letter describes itself in either case
Describes(pattern, text) ==
    \E i \in 1..(Len(text) - Len(pattern) + 1) :
        \A j \in 1..Len(pattern) :
            pattern[j] = "." \/ toLowerCase(text[i + j - 1]) = toLowerCase(pattern[j])
\* the field filters of a Track query: a supplied category is compared for
\* equality, a supplied author as the handler compares it (see C16)
FieldFilters(q, d) ==
    /\ (q.category # NoText => d.category = q.category)
    /\ (q.author # NoText => authorFilter(q.author, d.author))
Unpaged(q) == q.page = NoParam /\ q.limit = NoParam
IsMatchedSet(Sat(_)) ==
    /\ \A k \in 1..Len(resp.data) : Sat(resp.data[k])
    /\ resp.pagination.totalItems = Cardinality({i \in 1..Len(catalog.tracks) : Sat(catalog.tracks[i])})
    /\ Unpaged(resp.query) => Range(resp.data) = {d \in Range(catalog.tracks) : Sat(d)}

\* C15 as stated: a Track list response matches exactly the documents that pass
\* every supplied field filter and, when search is supplied, contain the search
\* text (without regard to case) in title, description, author or category; a
\* query without parameters matches every Track.
C15_SearchIsContainment ==
    (resp.op = "listTracks" /\ resp.status = 200) =>
        LET q == resp.query
            Sat(d) == /\ FieldFilters(q, d)
                      /\ q.search # NoText =>
                            \/ ContainsI(d.title, q.search) \/ ContainsI(d.description, q.search)
                            \/ ContainsI(d.author, q.search) \/ ContainsI(d.category, q.search)
        IN IsMatchedSet(Sat)

\* C15 amended: a Track list response matches exactly the documents that pass
\* every supplied field filter and, when search is supplied, have a title,
\* description, author or category that the search text describes as a
\* case-insensitive regular expression (for a text of letters only: that
\* contains it without regard to case); a parameter that is absent constrains
\* nothing, and a query without parameters matches every Track.
C15_SearchIsPattern ==
    (resp.op = "listTracks" /\ resp.status = 200) =>
        LET q == resp.query
            Found(text) == IF "." \in Range(q.search) THEN Describes(q.search, text)
                           ELSE ContainsI(text, q.search)
            Sat(d) == /\ FieldFilters(q, d)
                      /\ q.search # NoText =>
                            \/ Found(d.title) \/ Found(d.description)
                            \/ Found(d.author) \/ Found(d.category)
        IN /\ IsMatchedSet(Sat)
           /\ (q.category = NoText /\ q.author = NoText /\ q.search = NoText) =>
                 resp.pagination.totalItems = Len(catalog.tracks)
C15_Witness ==
    /\ resp.op = "listTracks" /\ resp.status = 200
    /\ resp.query.category = <<"a">> /\ resp.query.search = <<"a">> /\ resp.query.author = NoText
    /\ \E d \in Range(resp.data) : d.category = <<"a">> /\ d.title = <<"A">> /\ d.author = <<"b">>
                                   /\ d.description = NoText

\* the visibility a well-formed isPublic parameter names
Visibility(v) == v = "true"
ExactOnPlaylists ==
    (resp.op = "listPlaylists" /\ resp.status = 200) =>
        \A k \in 1..Len(resp.data) :
            /\ resp.query.createdBy # NoText => resp.data[k].createdBy = resp.query.createdBy
            /\ resp.query.isPublic \in {"true", "false"} =>
                  resp.data[k].isPublic = Visibility(resp.query.isPublic)

\* C16 as stated: a list response under a supplied category, author, createdBy
\* or visibility filter with value v holds only documents whose field equals v
\* (for author: with v a text of letters).
C16_FiltersAreExact ==
    /\ (resp.op = "listTracks" /\ resp.status = 200) =>
          \A k \in 1..Len(resp.data) :
              /\ resp.query.category # NoText => resp.data[k].category = resp.query.category
              /\ (resp.query.author # NoText /\ "." \notin Range(resp.query.author)) =>
                    resp.data[k].author = resp.query.author
    /\ ExactOnPlaylists

\* C16 amended: category, createdBy and visibility are compared for equality;
\* a supplied author v selects exactly the Tracks whose author the text v
\* describes as a case-insensitive regular expression (for a v of letters
\* only: whose author contains v without regard to case).
C16_AuthorIsPattern ==
    /\ (resp.op = "listTracks" /\ resp.status = 200) =>
          /\ \A k \in 1..Len(resp.data) :
                /\ resp.query.category # NoText => resp.data[k].category = resp.query.category
                /\ resp.query.author # NoText => Describes(resp.query.author, resp.data[k].author)
          /\ (resp.query.author # NoText /\ resp.query.category = NoText
                /\ resp.query.search = NoText /\ Unpaged(resp.query)) =>
                Range(resp.data) = {d \in Range(catalog.tracks) :
                                       IF "." \in Range(resp.query.author)
                                       THEN Describes(resp.query.author, d.author)
                                       ELSE ContainsI(d.author, resp.query.author)}
    /\ ExactOnPlaylists
C16_Witness ==
    /\ resp.op = "listTracks" /\ resp.status = 200 /\ resp.query.author = <<"a">>
    /\ \E d \in Range(resp.data) : d.author = <<"A", "b">>

\* ------------------------------------------------------- the middleware chain
\* the credential is no verified token of an active user
NoValidCredential(cred) ==
    ~(cred.kind = "verified" /\ cred.userId \in DOMAIN User /\ User[cred.userId].isActive)
StoreUnchanged == UNCHANGED <<Track, Playlist, Page, Contact>>
\* the step is a request on route `op` made with the credential
RequestWith(op, cred) ==
    CASE op = "createTrack" ->
            \E rulesPass \in BOOLEAN, pid \in LivePlaylists \cup {NoId} :
                PostTracks(cred, rulesPass, pid, NoFail)
      [] op = "updateTrack" ->
            \E rulesPass \in BOOLEAN, t \in KnownTracks \cup {Ghost}, pid \in LivePlaylists \cup {NoId} :
                PutTracksId(cred, rulesPass, t, pid, NoFail)
      [] op = "deleteTrack" ->
            \E rulesPass \in BOOLEAN, t \in KnownTracks \cup {Ghost} : DeleteTracksId(cred, rulesPass, t, FALSE)
      [] op = "createPlaylist" ->
            \E rulesPass \in BOOLEAN : PostPlaylists(cred, rulesPass, EmptyBody, FALSE)
      [] op = "updatePlaylist" ->
            \E rulesPass \in BOOLEAN, p \in KnownPlaylists, body \in {EmptyBody, CountBody} :
                PutPlaylistsId(cred, rulesPass, p, body, FALSE)
      [] op = "deletePlaylist" ->
            \E rulesPass \in BOOLEAN, p \in KnownPlaylists : DeletePlaylistsId(cred, rulesPass, p, FALSE)
      [] op = "addTracks" ->
            \E rulesPass \in BOOLEAN, p \in KnownPlaylists, trackIds \in GateTrackIds :
                PutPlaylistsIdTracks(cred, rulesPass, p, trackIds, FALSE)
      [] op = "removeTrack" ->
            \E rulesPass \in BOOLEAN, p \in KnownPlaylists, t \in KnownTracks :
                DeletePlaylistsIdTracksId(cred, rulesPass, p, toString(t), FALSE)
      [] op = "createPage" ->
            \E rulesPass \in BOOLEAN, body \in GatePageBodies : PostPages(cred, rulesPass, body, FALSE)
      [] op = "updatePage" ->
            \E rulesPass \in BOOLEAN, g \in KnownPages, body \in GatePageBodies :
                PutPagesId(cred, rulesPass, g, body, FALSE)
      [] op = "deletePage" ->
            \E rulesPass \in BOOLEAN, g \in KnownPages : DeletePagesId(cred, rulesPass, g, FALSE)
      [] op = "listContacts" -> GetContact(cred, FALSE)
      [] op = "deleteContact" -> \E c \in KnownContacts : DeleteContactId(cred, c, FALSE)
      [] OTHER -> FALSE
Guarded == {"createTrack", "updateTrack", "deleteTrack", "createPlaylist", "updatePlaylist",
            "deletePlaylist", "addTracks", "removeTrack", "createPage", "updatePage", "deletePage",
            "listContacts", "deleteContact"}

\* C17: a create, update or delete of a Track, Playlist or Page, a playlist
\* add-tracks or remove-track, a Contact listing or a Contact deletion made
\* without a verified credential of an active user is answered 401 and changes
\* no document.
C17_UnauthorizedIsRejected ==
    [][(last'.status # 401 \/ ~StoreUnchanged) =>
          \A cred \in Credentials :
              NoValidCredential(cred) => ~(last'.op \in Guarded /\ RequestWith(last'.op, cred))]_vars
C17_Witness ==
    /\ last.op = "deleteContact" /\ last.status = 401
    /\ LiveContacts # {} /\ LivePages # {}

Mutating == {"createTrack", "updateTrack", "deleteTrack", "createPlaylist", "updatePlaylist",
             "deletePlaylist", "addTracks", "removeTrack", "createPage", "updatePage", "deletePage"}

\* C18: a mutating Track, Playlist or Page request that is answered 400 has
\* changed no document; an add-tracks request whose list holds a malformed id,
\* alone or among well-formed ids, is answered 400 and adds no id.
C18_ValidationWritesNothing ==
    [][/\ (last'.status = 400 /\ last'.op \in Mutating) => StoreUnchanged
       /\ last'.op = "addTracks" =>
             \A p \in KnownPlaylists, trackIds \in GateTrackIds :
                 (Malformed \in Range(trackIds) /\ AddTracks(p, trackIds, FALSE)) =>
                     last'.status = 400 /\ Playlist' = Playlist]_vars
C18_Witness ==
    /\ last.op = "addTracks" /\ last.status = 400
    /\ \E p \in LivePlaylists, t \in LiveTracks : t \notin Range(Playlist[p].tracks)

ActiveUser == [kind |-> "verified", userId |-> 1]
Missing(coll, id) == id \notin DOMAIN coll \/ coll[id].st # "live"
AllWellFormed(trackIds) == \A i \in 1..Len(trackIds) : isHex24(trackIds[i])
NotFoundNothingElse == last'.status = 404 /\ StoreUnchanged

\* C19: an update or delete of a Track, Playlist or Page (add-tracks and
\* remove-track included) that passes authentication and validation, whose body
\* the handler would accept for an existing document, and whose id names no
\* stored document, is answered 404 and changes no document.
C19_MissingIdIsNotFound ==
    [][/\ last'.op = "updateTrack" =>
             \A t \in KnownTracks \cup {Ghost}, pid \in LivePlaylists \cup {NoId} :
                 (Missing(Track, t) /\ PutTracksId(ActiveUser, TRUE, t, pid, NoFail)) => NotFoundNothingElse
       /\ last'.op = "deleteTrack" =>
             \A t \in KnownTracks \cup {Ghost} :
                 (Missing(Track, t) /\ DeleteTracksId(ActiveUser, TRUE, t, FALSE)) => NotFoundNothingElse
       /\ last'.op = "updatePlaylist" =>
             \A p \in KnownPlaylists, body \in {EmptyBody, CountBody} :
                 (Missing(Playlist, p) /\ PutPlaylistsId(ActiveUser, TRUE, p, body, FALSE)) => NotFoundNothingElse
       /\ last'.op = "deletePlaylist" =>
             \A p \in KnownPlaylists :
                 (Missing(Playlist, p) /\ DeletePlaylistsId(ActiveUser, TRUE, p, FALSE)) => NotFoundNothingElse
       /\ last'.op = "addTracks" =>
             \A p \in KnownPlaylists, trackIds \in GateTrackIds :
                 (Missing(Playlist, p) /\ AllWellFormed(trackIds)
                    /\ PutPlaylistsIdTracks(ActiveUser, TRUE, p, trackIds, FALSE)) => NotFoundNothingElse
       /\ last'.op = "removeTrack" =>
             \A p \in KnownPlaylists, t \in KnownTracks :
                 (Missing(Playlist, p)
                    /\ DeletePlaylistsIdTracksId(ActiveUser, TRUE, p, toString(t), FALSE)) => NotFoundNothingElse
       /\ last'.op = "updatePage" =>
             \A g \in KnownPages, body \in GatePageBodies :
                 (Missing(Page, g) /\ ~slugTaken(body.slug, g)
                    /\ PutPagesId(ActiveUser, TRUE, g, body, FALSE)) => NotFoundNothingElse
       /\ last'.op = "deletePage" =>
             \A g \in KnownPages :
                 (Missing(Page, g) /\ DeletePagesId(ActiveUser, TRUE, g, FALSE)) => NotFoundNothingElse]_vars
C19_Witness ==
    /\ last.op = "updatePage" /\ last.status = 404
    /\ \E g \in PageIds : Page[g].st = "gone"

\* C13: a Page created without a slug is stored (201) with the slug that
\* slugify gives its title, and a later create whose explicit slug is a stored
\* slug is refused as a duplicate (400) and stores no Page.
C13_SlugRoundTrip ==
    [][\A body \in PageBodies :
          CreatePage(body, FALSE) =>
              /\ body.slug = NoText =>
                    /\ last'.status = 201
                    /\ Page'[NewPageId] = pageSchema(trim(body.title), slugify(body.title))
              /\ (body.slug # NoText /\ \E g \in LivePages : Page[g].slug = body.slug) =>
                    /\ last'.status = 400
                    /\ Page' = Page]_vars


\* C12: when requests in flight together resolve to the same slug for
\* different documents, no two stored Pages ever share a slug, at most one of
\* the requests succeeds, and each one that has lost was answered 400, whether
\* it lost at the pre-check or at the unique index.
resolvedSlug(r) ==
    IF r.op = "createPage" THEN pageToInsert(r.body).slug ELSE slugSetters(r.body.slug)
Succeeded(r) == r.pc = "done" /\ r.status \in {200, 201}
Lost(r) == r.pc = "done" /\ r.status \notin {200, 201}
Racing(i, j) ==
    /\ i # j /\ proc[i].pc # "idle" /\ proc[j].pc # "idle"
    /\ resolvedSlug(proc[i]) # NoText /\ resolvedSlug(proc[i]) = resolvedSlug(proc[j])
    /\ ~(proc[i].id # NoId /\ proc[i].id = proc[j].id)
SlugsDistinct == \A g, h \in LivePages : g # h => Page[g].slug # Page[h].slug
C12_DuplicateSlugRace ==
    /\ SlugsDistinct
    /\ \A i, j \in Procs :
          Racing(i, j) =>
              /\ ~(Succeeded(proc[i]) /\ Succeeded(proc[j]))
              /\ Lost(proc[i]) => proc[i].status = 400


\* C11: a Track create or update request issues no playlist write before its
\* own Track write: whenever it stands at, or has issued, a playlist write,
\* the first write it issued was the Track write, and the Track document is in
\* the store.
TrackRequest(r) == r.op \in {"createTrack", "updateTrack"}
AtPlaylistWrite(r) == r.pc \in {"add", "pull"} \/ "playlist" \in Range(r.writes)
C30_StoredSlugsNormalized ==
    \A g \in LivePages : slugify(Page[g].slug) = Page[g].slug

\* C25: a Page update that supplies the page's own current slug succeeds
\* (200); one that supplies a slug a different Page holds is refused as a
\* duplicate (400) and leaves every Page as it was.
C25_UpdateExcludesItself ==
    [][\A g \in LivePages, body \in PageBodies :
          UpdatePage(g, body, FALSE) =>
              /\ body.slug = Page[g].slug => last'.status = 200 /\ Page'[g].slug = Page[g].slug
              /\ (\E h \in LivePages \ {g} : Page[h].slug = body.slug) =>
                    last'.status = 400 /\ Page' = Page]_vars
C25_Witness ==
    /\ last.op = "updatePage" /\ last.status = 400
    /\ \E g, h \in LivePages : g # h

\* C21: a Track update whose playlistId is null or empty is accepted (200),
\* pulls the track from every playlist of its stored playlists field with the
\* count decremented, joins no playlist, and leaves the stored Track with an
\* empty playlists field.
C21_DetachOnUpdate ==
    [][\A t \in LiveTracks, v \in {Null, EmptyString} :
          PutTrack(t, v, NoFail) =>
              /\ last'.status = 200
              /\ Playlist' = removeFromOld(Playlist, Track[t].playlists, t, {})
              /\ Track'[t].playlists = <<>>]_vars

\* C22: in a Track update the remove step of each old playlist and the add
\* step of the new one take effect on their own: every playlist ends as if
\* only the steps that did not fail had been part of the request.
pulledTimes(pl, t, k) ==
    [pl EXCEPT !.tracks = IF k > 0 THEN SelectSeq(@, LAMBDA x : x # t) ELSE @,
               !.trackCount = @ - k]
StepsThatWorked(p, t, pid, fail) ==
    LET k == IF p \in fail.remove THEN 0 ELSE Occurrences(Track[t].playlists, p)
        left == pulledTimes(Playlist[p], t, k)
    IN IF p = pid /\ ~fail.add THEN addToSetInc(left, t) ELSE left
C22_StepsAreIndependent ==
    [][\A t \in LiveTracks, pid \in LivePlaylists : \A fail \in UpdateFails(t) :
          (~fail.primary /\ UpdateTrack(t, pid, fail)) =>
              /\ last'.status = 200
              /\ \A p \in LivePlaylists : Playlist'[p] = StepsThatWorked(p, t, pid, fail)]_vars
\* an update of a track of playlists 1 and 2 whose remove from 1 and add to 2
\* failed has still removed the track from 2
C22_Witness ==
    \E t \in LiveTracks :
        /\ last = Done("updateTrack", t, 2, 200)
        /\ Track[t].playlists = <<1, 2>>
        /\ t \in Range(Playlist[1].tracks)
        /\ t \notin Range(Playlist[2].tracks)
        /\ Playlist[2].trackCount = -1

\* C24: no stored Playlist ever has a negative trackCount.
C24_TrackCountNotNegative ==
    \A p \in LivePlaylists : Playlist[p].trackCount >= 0

\* C28: under failure-free Track creates and updates that each name a stored
\* playlist, every track's id is in the tracks array of at most one playlist,
\* and after a request for a track that playlist is the one the request named.
HoldersOf(t) == {p \in LivePlaylists : t \in Range(Playlist[p].tracks)}
C28_SingleMembership ==
    /\ \A t \in LiveTracks : Cardinality(HoldersOf(t)) <= 1
    /\ last.op \in {"createTrack", "updateTrack"} => HoldersOf(last.id) = {last.arg}

\* C23: Track creates into one playlist lose no update, however their store
\* calls interleave: each add step puts its track into the playlist as the
\* other request left it and counts it, so that once the creates have
\* answered the playlist holds each of their tracks exactly once and its
\* trackCount has grown by one for each.
AddPending(p) == {proc[i].id : i \in {j \in Procs : proc[j].pc = "add" /\ proc[j].arg = p}}
CreatedInto(p) ==
    {t \in LiveTracks : \/ Track[t].playlists = <<p>>
                        \/ \E i \in Procs : proc[i].id = t /\ proc[i].arg = p}
C23_ConcurrentCreatesKeepBoth ==
    \A p \in LivePlaylists :
        /\ Range(Playlist[p].tracks) = CreatedInto(p) \ AddPending(p)
        /\ \A t \in Range(Playlist[p].tracks) : Occurrences(Playlist[p].tracks, t) = 1
        /\ Playlist[p].trackCount = Len(Playlist[p].tracks)
\* two creates into one playlist have answered together
C23_Witness ==
    \E i, j \in Procs, p \in LivePlaylists :
        /\ i # j /\ proc[i].pc = "done" /\ proc[j].pc = "done"
        /\ proc[i].arg = p /\ proc[j].arg = p
        /\ Range(Playlist[p].tracks) = {proc[i].id, proc[j].id}
        /\ Playlist[p].trackCount = 2

\* C29: a Track update whose own Track write finds the track deleted issues no
\* playlist write (it adds the id to no playlist and changes no trackCount)
\* and does not answer with success.
WriteMissed(r) == r.op = "updateTrack" /\ r.writes # <<>> /\ r.writes[1] = "miss"
C29_UpdateOfDeletedTrack ==
    \A i \in Procs :
        WriteMissed(proc[i]) =>
            /\ "playlist" \notin Range(proc[i].writes)
            /\ ~(proc[i].pc = "done" /\ proc[i].status = 200)

\* C27: once two add-tracks requests on one playlist whose lists share an id
\* have both answered, that id is in the playlist's tracks exactly once and
\* trackCount is the length of tracks.
AnsweredOk(r) == r.pc = "done" /\ r.status \in {200, 201}
C27_ConcurrentAddsNoDuplicate ==
    \A i, j \in Procs :
        (/\ i # j /\ proc[i].op = "addTracks" /\ proc[j].op = "addTracks"
         /\ proc[i].id = proc[j].id /\ AnsweredOk(proc[i]) /\ AnsweredOk(proc[j])) =>
            /\ \A x \in Range(proc[i].ids) \cap Range(proc[j].ids) :
                  Occurrences(Playlist[proc[i].id].tracks, castObjectId(x)) = 1
            /\ Playlist[proc[i].id].trackCount = Len(Playlist[proc[i].id].tracks)

\* C26: once a playlist request (add-tracks or remove-track) and a Track
\* create or update that names the same playlist have both answered, the
\* track of the Track request is in the playlist's tracks, unless it is the id
\* the playlist request removed, and trackCount is the length of tracks.
C26_NoMembershipLost ==
    \A i, j \in Procs :
        (/\ proc[i].op \in PlaylistSide /\ proc[j].op \in {"createTrack", "updateTrack"}
         /\ proc[i].id = proc[j].arg /\ AnsweredOk(proc[i]) /\ AnsweredOk(proc[j])) =>
            LET pl == Playlist[proc[i].id]
                removed == proc[i].op = "removeTrack" /\ castObjectId(proc[i].ids[1]) = proc[j].id
            IN /\ removed \/ proc[j].id \in Range(pl.tracks)
               /\ pl.trackCount = Len(pl.tracks)

====
